---- MODULE Spec2Model ----
(***************************************************************************)
(* Model of the jinglemaker synthesis-and-effects engine (src/audio.rs,    *)
(* src/effects.rs, src/export.rs).                                         *)
(*                                                                         *)
(* Number model.  The program computes in f32.  Amplitudes, gains and     *)
(* mixes are modelled as fixed-point integers in units of 1/SCALE with     *)
(* round-to-nearest after every multiplication and division, so the model  *)
(* has finite precision like the program has.  Times are in microseconds,  *)
(* phases in units of 1/SCALE turn (phase / 2*pi).  The one place where    *)
(* the exact f32 result decides control flow, the exhaustion test          *)
(* `current_sample as f32 / sample_rate as f32 >= total_duration`, is      *)
(* modelled with exact IEEE-754 binary32 division (24-bit significand,     *)
(* round to nearest, ties to even).                                        *)
(***************************************************************************)
EXTENDS Integers, Sequences, FiniteSets, TLC

VARIABLES
    osc,     \* the Oscillator / LayeredOscillator under test
    out,     \* the result of its last next()
    delay,   \* the DelayBuffer under test
    dlast,   \* its last process_sample call: input, delayed value, output
    pushes,  \* every value process_sample pushed onto the history, in call order
    feed,    \* the caller's input sequence: an impulse or a constant
    lp,      \* the LowPassFilter under test
    lplast,  \* its last process_sample call: input, previous_output, output
    lpfeed,  \* the caller's inputs: a step (1, 1, 1, ...) or free inputs
    lpcalls, \* the number of process_sample and reset calls so far
    lpwiped, \* the previous_output each reset so far has overwritten
    samples,   \* the buffer normalization works on
    original,  \* the buffer as it was handed over
    target,    \* target_peak
    napplied,  \* the number of normalizations applied so far
    fx,      \* the effect wrapped around the source `osc`: Echo, Reverb or LowPass
    fxout,   \* the result of the effect's last next()
    srcpeak, \* the largest magnitude among the samples the effect has pulled
    srcpulls, \* the number of next() calls made on the source
    fxpulls,  \* the effect's next() calls: made, answered by a sample, by None
    upstream, \* two sample streams, each feeding one of two effects
    twin,     \* two identically configured effects
    twinout,  \* the samples each of the two effects has returned
    agc,      \* the AutomaticGainControl under test
    agclast,  \* <<>> or <<r>>: input and output of the last process_sample
    agccalls, \* the number of process_sample calls made on agc
    gen,      \* the JingleGenerator under test
    genlast,  \* <<>> or <<r>>: the last seed operation, its argument and its result
    pairnew,  \* two separately constructed streams, as constructed
    pairnow,  \* the two streams now
    pairout   \* the results each of the two streams has returned

oscVars == <<osc, out>>

delayVars == <<delay, dlast, pushes, feed>>

lpVars == <<lp, lplast, lpfeed, lpcalls, lpwiped>>

normVars == <<samples, original, target, napplied>>

chainVars == <<fx, fxout, srcpeak, srcpulls, fxpulls>>

agcVars == <<agc, agclast, agccalls>>

twinVars == <<upstream, twin, twinout>>

seedVars == <<gen, genlast>>

pairVars == <<pairnew, pairnow, pairout>>

vars == <<oscVars, delayVars, lpVars, normVars, chainVars, agcVars, twinVars, seedVars, pairVars>>

\* what the actions of each specification leave alone
othersOsc == <<delayVars, lpVars, normVars, chainVars, agcVars, twinVars, seedVars, pairVars>>

othersDelay == <<oscVars, lpVars, normVars, chainVars, agcVars, twinVars, seedVars, pairVars>>

othersLp == <<oscVars, delayVars, normVars, chainVars, agcVars, twinVars, seedVars, pairVars>>

othersNorm == <<oscVars, delayVars, lpVars, chainVars, agcVars, twinVars, seedVars, pairVars>>

othersChain == <<delayVars, lpVars, normVars, agcVars, twinVars, seedVars, pairVars>>

othersAgc == <<oscVars, delayVars, lpVars, normVars, chainVars, twinVars, seedVars, pairVars>>

othersSeed == <<oscVars, delayVars, lpVars, normVars, chainVars, agcVars, twinVars, pairVars>>

othersPair == <<oscVars, delayVars, lpVars, normVars, chainVars, agcVars, twinVars, seedVars>>

othersTwin == <<oscVars, delayVars, lpVars, normVars, chainVars, agcVars, seedVars, pairVars>>

----------------------------------------------------------------------------
(* Fixed-point arithmetic *)

SCALE == 10 ^ 4

Abs(x) == IF x < 0 THEN -x ELSE x

Sign(x) == IF x < 0 THEN -1 ELSE 1

\* n / d rounded to the nearest integer (d > 0), halves away from zero
Round(n, d) == Sign(n) * ((Abs(n) + d \div 2) \div d)

\* a * b on values scaled by SCALE
Mul(a, b) == Round(a * b, SCALE)

\* a / b on values scaled by SCALE (b # 0)
Div(a, b) == Sign(b) * Round(a * SCALE, Abs(b))

\* f32 `%`: the remainder has the sign of the dividend (truncated division)
Rem(a, b) == Sign(a) * (Abs(a) % b)

Clamp(x, lo, hi) == IF x < lo THEN lo ELSE IF x > hi THEN hi ELSE x

Max(a, b) == IF a > b THEN a ELSE b

RECURSIVE MaxAbs(_)
\* the largest magnitude in a sequence, 0 for the empty one
MaxAbs(seq) == IF seq = <<>> THEN 0 ELSE Max(Abs(Head(seq)), MaxAbs(Tail(seq)))

----------------------------------------------------------------------------
(* IEEE-754 binary32 values m * 2^e, 2^23 <= m < 2^24, or zero <<0, 0>> *)

Pow2(k) == 2 ^ k

RECURSIVE F32ScaleUp(_, _, _)
\* smallest k with a * 2^k >= b, returned as <<a * 2^k, k>>
F32ScaleUp(a, b, k) == IF a >= b THEN <<a, k>> ELSE F32ScaleUp(2 * a, b, k + 1)

RECURSIVE F32ScaleDown(_, _, _)
\* largest k with b * 2^k <= a, returned as <<b * 2^k, k>>
F32ScaleDown(a, b, k) == IF 2 * b > a THEN <<b, k>> ELSE F32ScaleDown(a, 2 * b, k + 1)

RECURSIVE F32Bits(_, _, _, _)
\* long division: i more quotient bits of r / b appended to q
F32Bits(q, r, b, i) ==
    IF i = 0 THEN <<q, r>>
    ELSE IF 2 * r >= b THEN F32Bits(2 * q + 1, 2 * r - b, b, i - 1)
         ELSE F32Bits(2 * q, 2 * r, b, i - 1)

\* n / d with the significand cut off after 24 bits (round toward zero)
F32DivTruncating(n, d) ==
    IF n = 0 THEN <<0, 0>>
    ELSE LET up == F32ScaleUp(n, d, 0)
             dn == F32ScaleDown(up[1], d, 0)
         IN  <<F32Bits(1, up[1] - dn[1], dn[1], 23)[1], dn[2] - up[2] - 23>>

\* n / d correctly rounded to binary32, for integers 0 <= n < 2^24, 0 < d < 2^24
F32Div(n, d) ==
    IF n = 0 THEN <<0, 0>>
    ELSE LET up   == F32ScaleUp(n, d, 0)
             a    == up[1]
             dn   == F32ScaleDown(a, d, 0)
             b    == dn[1]
             x    == dn[2] - up[2]           \* n/d = (a/b) * 2^x, 1 <= a/b < 2
             qr   == F32Bits(1, a - b, b, 23)
             q    == qr[1]
             r    == qr[2]
             rnd  == IF 2 * r > b \/ (2 * r = b /\ q % 2 = 1) THEN q + 1 ELSE q
         IN  IF rnd = Pow2(24) THEN <<Pow2(23), x - 22>> ELSE <<rnd, x - 23>>

\* a >= b on non-negative binary32 values
F32Geq(a, b) ==
    \/ b[1] = 0
    \/ a[1] # 0 /\ (a[2] > b[2] \/ (a[2] = b[2] /\ a[1] >= b[1]))

\* binary32 values with a sign: <<m, e>> stands for m * 2^e, with
\* 2^23 <= |m| < 2^24 or m = 0.  The operations below round to nearest, ties
\* to even, as the program's f32 operations do; exponents are not bounded, so
\* they are exact for results in the normal range of f32.
F32Zero == <<0, 0>>

F32Neg(x) == <<-x[1], x[2]>>

F32Abs(x) == <<IF x[1] < 0 THEN -x[1] ELSE x[1], x[2]>>

RECURSIVE F32Excess(_, _)
\* the number of low bits n has beyond 24
F32Excess(n, k) == IF n < Pow2(24) THEN k ELSE F32Excess(n \div 2, k + 1)

\* n * 2^e for an integer n >= 0, rounded to a 24-bit significand; an odd n
\* stands for any value strictly between n - 1 and n + 1 (a sticky last bit)
F32Round(n, e) ==
    IF n = 0 THEN F32Zero
    ELSE IF n < Pow2(23)
    THEN LET up == F32ScaleUp(n, Pow2(23), 0) IN <<up[1], e - up[2]>>
    ELSE LET k   == F32Excess(n, 0)
             q   == n \div Pow2(k)
             r   == n % Pow2(k)
             rnd == IF 2 * r > Pow2(k) \/ (2 * r = Pow2(k) /\ q % 2 = 1)
                    THEN q + 1 ELSE q
         IN  IF rnd = Pow2(24) THEN <<Pow2(23), e + k + 1>> ELSE <<rnd, e + k>>

\* a > b on magnitudes
F32MagGt(a, b) ==
    /\ a[1] # 0
    /\ (b[1] = 0 \/ a[2] > b[2] \/ (a[2] = b[2] /\ a[1] > b[1]))

\* the smaller magnitude b aligned to the larger one a with three more bits,
\* the last of them sticky
F32Aligned(a, b) ==
    LET shift == IF a[2] - b[2] > 27 THEN 27 ELSE a[2] - b[2]
        whole == (8 * b[1]) \div Pow2(shift)
        lost  == (8 * b[1]) % Pow2(shift)
    IN  IF lost # 0 /\ whole % 2 = 0 THEN whole + 1 ELSE whole

\* a + b and a - b on magnitudes with a >= b > 0
F32MagAdd(a, b) == F32Round(8 * a[1] + F32Aligned(a, b), a[2] - 3)

F32MagSub(a, b) == F32Round(8 * a[1] - F32Aligned(a, b), a[2] - 3)

\* x + y
F32Add(x, y) ==
    IF x[1] = 0 THEN y
    ELSE IF y[1] = 0 THEN x
    ELSE LET a    == F32Abs(x)
             b    == F32Abs(y)
             big  == IF F32MagGt(b, a) THEN y ELSE x
             hi   == IF F32MagGt(b, a) THEN b ELSE a
             lo   == IF F32MagGt(b, a) THEN a ELSE b
             mag  == IF (x[1] > 0) = (y[1] > 0) THEN F32MagAdd(hi, lo)
                     ELSE F32MagSub(hi, lo)
         IN  IF big[1] < 0 THEN F32Neg(mag) ELSE mag

\* x - y
F32Sub(x, y) == F32Add(x, F32Neg(y))

\* x * y: the 48-bit product of the significands from 12-bit halves, cut to
\* 28 bits with a sticky last bit, then rounded
F32Mul(x, y) ==
    IF x[1] = 0 \/ y[1] = 0 THEN F32Zero
    ELSE LET a    == F32Abs(x)[1]
             b    == F32Abs(y)[1]
             a1   == a \div Pow2(12)
             a0   == a % Pow2(12)
             b1   == b \div Pow2(12)
             b0   == b % Pow2(12)
             lo   == a0 * b0
             mid  == a1 * b0 + a0 * b1 + lo \div Pow2(12)
             hi   == a1 * b1 + mid \div Pow2(12)
             low  == (mid % Pow2(12)) * Pow2(12) + (lo % Pow2(12))
             bits == 16 * hi + 2 * (low \div Pow2(21))
                     + (IF low % Pow2(21) # 0 THEN 1 ELSE 0)
             mag  == F32Round(bits, x[2] + y[2] + 20)
         IN  IF (x[1] > 0) = (y[1] > 0) THEN mag ELSE F32Neg(mag)

\* x / y for y # 0
F32Quot(x, y) ==
    IF x[1] = 0 THEN F32Zero
    ELSE LET q   == F32Div(F32Abs(x)[1], F32Abs(y)[1])
             mag == <<q[1], q[2] + x[2] - y[2]>>
         IN  IF (x[1] > 0) = (y[1] > 0) THEN mag ELSE F32Neg(mag)

\* x > y
F32Gt(x, y) ==
    IF x[1] >= 0 /\ y[1] >= 0 THEN F32MagGt(x, y)
    ELSE IF x[1] < 0 /\ y[1] < 0 THEN F32MagGt(F32Abs(y), F32Abs(x))
    ELSE x[1] >= 0 /\ y[1] < 0

\* x.clamp(lo, hi)
F32Clamp(x, lo, hi) == IF F32Gt(lo, x) THEN lo ELSE IF F32Gt(x, hi) THEN hi ELSE x

----------------------------------------------------------------------------
(* src/lib.rs, src/audio.rs: waveforms, ADSR envelope, oscillators *)

SAMPLE_RATE == 44100

\* microseconds per time unit of the model (times are integers in microseconds)
USEC == 10 ^ 6

WaveForm == {"Sine", "Triangle", "Sawtooth", "Square"}

\* ADSR::default(): attack 0.1 s, decay 0.1 s, sustain 0.7, release 0.2 s
ADSRDefault ==
    [attack |-> USEC \div 10, decay |-> USEC \div 10,
     sustain |-> (7 * SCALE) \div 10, release |-> (2 * USEC) \div 10]

\* the 0.3 factor of `wave_value * envelope * 0.3`
Headroom == (3 * SCALE) \div 10

\* `current_sample as f32 / sample_rate as f32` in microseconds, for the
\* envelope and the phase
TimeOf(current_sample) == Round(current_sample * (USEC \div 100), SAMPLE_RATE \div 100)

\* `time * frequency` in turns (the program's phase is this times 2*pi)
TurnsOf(time, frequency) == Round(time * frequency, USEC \div SCALE)

\* f32::sin of a phase given in turns: the program calls libm; the model uses
\* the parabolic arcs through the same zeros (0, 1/2 turn) and the same
\* extrema (+1 at 1/4 turn, -1 at 3/4 turn), which has the range and the sign
\* of the sine
Sin(phase) ==
    LET q == phase % SCALE
        h == SCALE \div 2
    IN  IF q <= h THEN Round(16 * q * (h - q), SCALE)
        ELSE -Round(16 * (q - h) * (SCALE - q), SCALE)

\* the `match` of generate_wave / generate_layer_wave on a phase in turns;
\* normalized_phase = (phase / (2.0 * PI)) % 1.0 keeps the sign of the phase
WaveValue(waveform, phase) ==
    LET normalized_phase == Rem(phase, SCALE)
    IN  CASE waveform = "Sine" -> Sin(phase)
          [] waveform = "Triangle" ->
                IF normalized_phase < SCALE \div 2
                THEN 4 * normalized_phase - SCALE
                ELSE 3 * SCALE - 4 * normalized_phase
          [] waveform = "Sawtooth" -> 2 * normalized_phase - SCALE
          [] waveform = "Square" -> IF Sin(phase) >= 0 THEN SCALE ELSE -SCALE

\* Oscillator::generate_wave
GenerateWave(o, time) == WaveValue(o.waveform, TurnsOf(time, o.frequency))

\* an attack ramp running from 1 down to 0
AttackPhaseInverted(time, attack_time) == SCALE - Div(time, attack_time)

\* the attack branch of get_amplitude_envelope: time / attack_time
AttackPhase(time, attack_time) == Div(time, attack_time)

\* the envelope without its sustain branch: the release ramp is used from the
\* end of the decay on
GetAmplitudeEnvelopeNoSustain(o, time) ==
    LET attack_time   == o.adsr.attack
        decay_time    == o.adsr.decay
        release_start == o.total_duration.us - o.adsr.release
    IN  IF time < attack_time THEN AttackPhase(time, attack_time)
        ELSE IF time < attack_time + decay_time THEN
            LET decay_progress == Div(time - attack_time, decay_time)
            IN  SCALE - Mul(decay_progress, SCALE - o.adsr.sustain)
        ELSE
            LET release_progress == Div(time - release_start, o.adsr.release)
            IN  Mul(o.adsr.sustain, SCALE - release_progress)

\* Oscillator::get_amplitude_envelope and LayeredOscillator::get_amplitude_envelope
\* (the two bodies are the same text)
GetAmplitudeEnvelope(o, time) ==
    LET attack_time   == o.adsr.attack
        decay_time    == o.adsr.decay
        release_start == o.total_duration.us - o.adsr.release
    IN  IF time < attack_time THEN AttackPhase(time, attack_time)
        ELSE IF time < attack_time + decay_time THEN
            LET decay_progress == Div(time - attack_time, decay_time)
            IN  SCALE - Mul(decay_progress, SCALE - o.adsr.sustain)
        ELSE IF time < release_start THEN o.adsr.sustain
        ELSE
            LET release_progress == Div(time - release_start, o.adsr.release)
            IN  Mul(o.adsr.sustain, SCALE - release_progress)

\* OscillatorLayer { frequency_offset, waveform, amplitude, phase_offset };
\* phase_offset is kept in turns like every phase of the model
Layer(frequency_offset, waveform, amplitude, phase_offset) ==
    [frequency_offset |-> frequency_offset, waveform |-> waveform,
     amplitude |-> amplitude, phase_offset |-> phase_offset]

\* LayeredOscillator::generate_layer_wave
GenerateLayerWave(o, layer, time) ==
    LET frequency == Round(o.frequency * layer.frequency_offset, SCALE)
        phase     == TurnsOf(time, frequency) + layer.phase_offset
    IN  Mul(WaveValue(layer.waveform, phase), layer.amplitude)

RECURSIVE SumLayerWaves(_, _, _)
SumLayerWaves(o, i, time) ==
    IF i = 0 THEN 0
    ELSE SumLayerWaves(o, i - 1, time) + GenerateLayerWave(o, o.layers[i], time)

RECURSIVE SumAmplitudes(_, _)
SumAmplitudes(layers, i) ==
    IF i = 0 THEN 0 ELSE SumAmplitudes(layers, i - 1) + layers[i].amplitude

\* the normalisation guarded against a zero sum only
NormalizeCombinedNonZero(combined, total_amplitude) ==
    IF total_amplitude # 0 THEN Div(combined, total_amplitude) ELSE 0

\* the normalisation at the end of generate_combined_wave
NormalizeCombined(combined, total_amplitude) ==
    IF total_amplitude > 0 THEN Div(combined, total_amplitude) ELSE 0

\* LayeredOscillator::generate_combined_wave
GenerateCombinedWave(o, time) ==
    NormalizeCombined(SumLayerWaves(o, Len(o.layers), time),
                      SumAmplitudes(o.layers, Len(o.layers)))

\* a duration: the f32 the program holds (significand, exponent) and the same
\* value in microseconds
Duration(m, e, us) == [f |-> <<m, e>>, us |-> us]

\* Oscillator::new
OscillatorNew(frequency, waveform, duration) ==
    [kind |-> "Oscillator", frequency |-> frequency, waveform |-> waveform,
     layers |-> <<>>, adsr |-> ADSRDefault, current_sample |-> 0,
     total_duration |-> duration]

\* LayeredOscillator::new
LayeredOscillatorNew(frequency, waveform, duration) ==
    [kind |-> "LayeredOscillator", frequency |-> frequency, waveform |-> waveform,
     layers |-> <<Layer(SCALE, waveform, SCALE, 0)>>, adsr |-> ADSRDefault,
     current_sample |-> 0, total_duration |-> duration]

\* Oscillator::with_adsr, LayeredOscillator::with_adsr
WithAdsr(o, adsr) == [o EXCEPT !.adsr = adsr]

\* the exhaustion test with `>` for `>=`
ExhaustedStrict(o) ==
    ~F32Geq(o.total_duration.f, F32Div(o.current_sample, SAMPLE_RATE))

\* the exhaustion test of next(): time >= self.total_duration, on the f32 values
Exhausted(o) == F32Geq(F32Div(o.current_sample, SAMPLE_RATE), o.total_duration.f)

\* Option<f32> results of next(); `pulled` tells a result from the state
\* before the first pull, `wave` and `envelope` record the two factors
NotPulled == [pulled |-> FALSE, some |-> FALSE, v |-> 0, wave |-> 0, envelope |-> 0]

None == [pulled |-> TRUE, some |-> FALSE, v |-> 0, wave |-> 0, envelope |-> 0]

Some(sample, wave_value, envelope) ==
    [pulled |-> TRUE, some |-> TRUE, v |-> sample, wave |-> wave_value,
     envelope |-> envelope]

\* the sample of Oscillator::next / LayeredOscillator::next at the current counter
SampleOf(o) ==
    LET time       == TimeOf(o.current_sample)
        wave_value == IF o.kind = "Oscillator" THEN GenerateWave(o, time)
                      ELSE GenerateCombinedWave(o, time)
        envelope   == GetAmplitudeEnvelope(o, time)
    IN  Some(Mul(Mul(wave_value, envelope), Headroom), wave_value, envelope)

\* the result of next() and the oscillator after it
PullResult(o) == IF Exhausted(o) THEN None ELSE SampleOf(o)

\* the counter incremented on every pull, exhausted or not
PullStateCounting(o) == [o EXCEPT !.current_sample = @ + 1]

PullState(o) ==
    IF Exhausted(o) THEN o ELSE [o EXCEPT !.current_sample = @ + 1]

\* 2.0_f32.powf(cents / 1200.0) of add_detune, cents in units of 1/SCALE: the
\* quotient is rounded to the model's resolution as the program's is to f32's,
\* and 2^x is the cubic Taylor polynomial of exp(x * ln 2), exact to 1/SCALE
\* for |cents| <= 100
DetuneRatio(cents) ==
    LET x == Round(cents, 1200)
        y == Mul(x, 6931)                          \* ln 2 = 0.6931
    IN  SCALE + y + Round(Mul(y, y), 2) + Round(Mul(Mul(y, y), y), 6)

\* add_harmonic pushing its layer in front of the others
AddHarmonicToFront(o, multiplier, waveform, amplitude) ==
    [o EXCEPT !.layers = <<Layer(multiplier, waveform, amplitude, 0)>> \o @]

\* LayeredOscillator::add_layer
AddLayerTo(o, layer) == [o EXCEPT !.layers = Append(@, layer)]

\* LayeredOscillator::add_harmonic
AddHarmonicTo(o, multiplier, waveform, amplitude) ==
    [o EXCEPT !.layers = Append(@, Layer(multiplier, waveform, amplitude, 0))]

\* LayeredOscillator::add_detune
AddDetuneTo(o, cents, waveform, amplitude) ==
    [o EXCEPT !.layers = Append(@, Layer(DetuneRatio(cents), waveform, amplitude, 0))]

----------------------------------------------------------------------------
(* Inputs of the oscillator specification *)

MaxLayers == 3

Frequencies == {440, 1000}

\* total_duration values: 0 s, 2^-17 s (less than one sample period),
\* 0.001 s and 0.1 s, each as the f32 the literal denotes
ZeroDuration == Duration(0, 0, 0)

TinyDuration == Duration(Pow2(23), -40, 8)

ShortDuration == Duration(8589935, -33, 1000)

ToneDuration == Duration(13421773, -27, 100000)

Durations == {ZeroDuration, TinyDuration, ShortDuration, ToneDuration}

\* ADSR values with attack, decay, release > 0 and sustain in [0, 1]: the
\* default, one that fits into ShortDuration, one whose phases overlap in it
ShortADSR == [attack |-> 200, decay |-> 200, sustain |-> (7 * SCALE) \div 10, release |-> 300]

OverlapADSR == [attack |-> 500, decay |-> 400, sustain |-> SCALE, release |-> 600]

\* a sustain level of 0 with a release longer than what is left after the decay
ZeroSustainADSR == [attack |-> 300, decay |-> 300, sustain |-> 0, release |-> 700]

\* attack + decay + release equal to ShortDuration: no sustain phase is left
ExactFitADSR == [attack |-> 300, decay |-> 300, sustain |-> SCALE \div 2, release |-> 400]

ADSRs == {ADSRDefault, ShortADSR, OverlapADSR, ZeroSustainADSR, ExactFitADSR}

\* layers handed to add_layer: a quarter turn of phase lead and of phase lag
\* (phase_offset = +pi/2 and -pi/2)
AddedLayers ==
    {Layer(SCALE, "Sine", SCALE \div 2, SCALE \div 4),
     Layer(SCALE, "Triangle", SCALE, -(SCALE \div 4))}

HarmonicAmplitudes == {(3 * SCALE) \div 10, -SCALE}

\* cents handed to add_detune: 10 cents sharp, 10 cents flat, and a detune of
\* 0.0001 cents, below what the quotient cents / 1200 resolves
DetuneCents == {10 * SCALE, -(10 * SCALE), 1}

----------------------------------------------------------------------------
(* Oscillator specification: construction, the builder calls, the pulls *)

\* the values of the variables a specification does not use
IdleOsc == osc = <<>> /\ out = NotPulled

IdleDelay == delay = <<>> /\ dlast = <<>> /\ pushes = <<>> /\ feed = <<>>

IdleLp == lp = <<>> /\ lplast = <<>> /\ lpfeed = "" /\ lpcalls = 0 /\ lpwiped = <<>>

IdleNorm == samples = <<>> /\ original = <<>> /\ target = 0 /\ napplied = 0

IdleChain ==
    /\ fx = <<>> /\ fxout = NotPulled /\ srcpeak = 0
    /\ srcpulls = 0 /\ fxpulls = <<>>

IdleAgc == agc = <<>> /\ agclast = <<>> /\ agccalls = 0

IdleSeed == gen = <<>> /\ genlast = <<>>

IdlePair == pairnew = <<>> /\ pairnow = <<>> /\ pairout = <<>>

IdleTwin == upstream = <<>> /\ twin = <<>> /\ twinout = <<>>

InitOsc ==
    /\ IdleDelay /\ IdleLp /\ IdleNorm /\ IdleChain /\ IdleAgc /\ IdleTwin /\ IdleSeed /\ IdlePair
    /\ out = NotPulled
    /\ \/ \E f \in Frequencies, w \in WaveForm, d \in Durations, a \in ADSRs :
            osc = WithAdsr(OscillatorNew(f, w, d), a)
       \/ \E w \in {"Sine", "Triangle"}, d \in {TinyDuration, ShortDuration},
             a \in {ADSRDefault, ShortADSR} :
            osc = WithAdsr(LayeredOscillatorNew(440, w, d), a)

Building ==
    /\ osc.kind = "LayeredOscillator"
    /\ ~out.pulled
    /\ Len(osc.layers) < MaxLayers

AddLayer ==
    /\ Building
    /\ \E layer \in AddedLayers : osc' = AddLayerTo(osc, layer)
    /\ UNCHANGED <<out, othersOsc>>

AddHarmonic ==
    /\ Building
    /\ \E amplitude \in HarmonicAmplitudes :
          osc' = AddHarmonicTo(osc, 2 * SCALE, "Square", amplitude)
    /\ UNCHANGED <<out, othersOsc>>

AddDetune ==
    /\ Building
    /\ \E cents \in DetuneCents :
          osc' = AddDetuneTo(osc, cents, "Sawtooth", SCALE \div 2)
    /\ UNCHANGED <<out, othersOsc>>

\* Oscillator::next
OscillatorNext ==
    /\ osc.kind = "Oscillator"
    /\ out' = PullResult(osc)
    /\ osc' = PullState(osc)
    /\ UNCHANGED othersOsc

\* LayeredOscillator::next
LayeredOscillatorNext ==
    /\ osc.kind = "LayeredOscillator"
    /\ out' = PullResult(osc)
    /\ osc' = PullState(osc)
    /\ UNCHANGED othersOsc

NextOsc ==
    \/ AddLayer
    \/ AddHarmonic
    \/ AddDetune
    \/ OscillatorNext
    \/ LayeredOscillatorNext

SpecOsc == InitOsc /\ [][NextOsc]_vars

----------------------------------------------------------------------------
(* src/effects.rs: DelayBuffer *)

\* the feedback argument stored as given
ClampFeedbackOff(feedback) == feedback

\* feedback.clamp(0.0, 0.95)
ClampFeedback(feedback) == Clamp(feedback, 0, (95 * SCALE) \div 100)

\* ((delay_ms / 1000.0) * SAMPLE_RATE as f32) as usize; delay_ms is in units of
\* 1/SCALE ms, the cast truncates and saturates at 0
DelaySamples(delay_ms) ==
    IF delay_ms <= 0 THEN 0
    ELSE (delay_ms * (SAMPLE_RATE \div 100)) \div (10 * SCALE)

\* DelayBuffer::new
DelayBufferNew(delay_ms, feedback, mix) ==
    [buffer            |-> <<>>,
     max_delay_samples |-> Max(DelaySamples(delay_ms), 1),
     delay_samples     |-> DelaySamples(delay_ms),
     feedback          |-> ClampFeedback(feedback),
     mix               |-> Clamp(mix, 0, SCALE)]

\* while self.buffer.len() < self.max_delay_samples { push_back(0.0) }:
\* the buffer followed by the zeros the loop pushes
PrimeBuffer(buffer, max_delay_samples) ==
    IF Len(buffer) < max_delay_samples
    THEN buffer \o [i \in 1..(max_delay_samples - Len(buffer)) |-> 0]
    ELSE buffer

\* the delayed sample process_sample reads from the primed buffer:
\* buffer[len - delay_samples - 1] counted from 0 is buffer[len - delay_samples]
\* counted from 1
DelayedSample(d, buffer) ==
    IF d.delay_samples < Len(buffer)
    THEN buffer[Len(buffer) - d.delay_samples]
    ELSE 0

\* the feedback sum with the feedback factor left out
FeedbackOutputUnscaled(d, input, delayed_sample) == input + delayed_sample

\* output_sample = input + delayed_sample * self.feedback
FeedbackOutput(d, input, delayed_sample) == input + Mul(delayed_sample, d.feedback)

\* push_back(output_sample) with the pop_front() left out
PushBufferNoEvict(buffer, output_sample, max_delay_samples) ==
    Append(buffer, output_sample)

\* push_back(output_sample), then pop_front() when over max_delay_samples
PushBuffer(buffer, output_sample, max_delay_samples) ==
    LET pushed == Append(buffer, output_sample)
    IN  IF Len(pushed) > max_delay_samples THEN Tail(pushed) ELSE pushed

\* the mix with the dry and the wet weight exchanged
MixOutputSwapped(d, input, delayed_sample) ==
    Mul(input, d.mix) + Mul(delayed_sample, SCALE - d.mix)

\* input * (1.0 - self.mix) + delayed_sample * self.mix
MixOutput(d, input, delayed_sample) ==
    Mul(input, SCALE - d.mix) + Mul(delayed_sample, d.mix)

\* DelayBuffer::process_sample: the call's values and the buffer after it
ProcessSample(d, input) ==
    LET primed         == PrimeBuffer(d.buffer, d.max_delay_samples)
        delayed_sample == DelayedSample(d, primed)
        output_sample  == FeedbackOutput(d, input, delayed_sample)
    IN  [state   |-> [d EXCEPT !.buffer =
                         PushBuffer(primed, output_sample, d.max_delay_samples)],
         input   |-> input,
         delayed |-> delayed_sample,
         pushed  |-> output_sample,
         output  |-> MixOutput(d, input, delayed_sample)]

----------------------------------------------------------------------------
(* DelayBuffer specification: construction, then process_sample calls fed   *)
(* with an impulse (c, 0, 0, ...) or with a constant (c, c, c, ...)         *)

MaxCalls == 24

\* delay_ms values computing to 0, 1, 2 and 3 samples
DelayTimes == {0, 3 * (SCALE \div 100), 5 * (SCALE \div 100), 7 * (SCALE \div 100)}

\* feedback arguments: inside the range, at its top, above it
Feedbacks == {SCALE \div 2, (95 * SCALE) \div 100, (3 * SCALE) \div 2}

\* mix arguments: dry only, inside the range, wet only, above the range
Mixes == {0, (3 * SCALE) \div 10, SCALE, 2 * SCALE}

InputLevels == {SCALE, -(SCALE \div 2), 3}

\* the input of the n-th call
FeedInput(n) == IF feed.mode = "impulse" /\ n > 1 THEN 0 ELSE feed.c

InitDelay ==
    /\ IdleOsc /\ IdleLp /\ IdleNorm /\ IdleChain /\ IdleAgc /\ IdleTwin /\ IdleSeed /\ IdlePair
    /\ \E delay_ms \in DelayTimes, feedback \in Feedbacks, mix \in Mixes :
          delay = DelayBufferNew(delay_ms, feedback, mix)
    /\ \E mode \in {"impulse", "constant"}, c \in InputLevels :
          feed = [mode |-> mode, c |-> c]
    /\ dlast = <<>>
    /\ pushes = <<>>

\* one call of DelayBuffer::process_sample
DelayProcessSample ==
    /\ Len(pushes) < MaxCalls
    /\ LET call == ProcessSample(delay, FeedInput(Len(pushes) + 1))
       IN  /\ delay' = call.state
           /\ dlast' = <<[input |-> call.input, delayed |-> call.delayed,
                          output |-> call.output]>>
           /\ pushes' = Append(pushes, call.pushed)
    /\ UNCHANGED <<feed, othersDelay>>

NextDelay == DelayProcessSample

SpecDelay == InitDelay /\ [][NextDelay]_vars

----------------------------------------------------------------------------
(* DelayBuffer::new over the whole range of its arguments, then             *)
(* process_sample calls with freely chosen inputs                           *)

\* the width of usize on a 64-bit target
UsizeBits == 64

\* a delay_ms argument: ms * 2^pow2 in units of 1/SCALE ms
DelayArg(ms, pow2) == [ms |-> ms, pow2 |-> pow2]

\* VecDeque::with_capacity(max_delay_samples) panics with "capacity overflow"
\* when the buffer of 4-byte samples exceeds isize::MAX bytes, that is from
\* 2^(UsizeBits - 3) samples on; the cast `as usize` saturates at usize::MAX.
\* For an argument of ms * 2^pow2 with pow2 >= UsizeBits - 3 that is the case
\* as soon as ms alone makes one sample.
CapacityOverflow(arg) ==
    /\ arg.pow2 >= UsizeBits - 3
    /\ DelaySamples(arg.ms) >= 1

MaxNewCalls == 2

\* delays of -1 ms, 0 ms, one to three samples, and of 2^61 and 2^127 times
\* 0.03 ms
DelayArgs ==
    {DelayArg(ms, 0) : ms \in DelayTimes \cup {-SCALE}}
    \cup {DelayArg(3 * (SCALE \div 100), e) : e \in {UsizeBits - 3, 127}}

\* feedback and mix arguments below, inside and above their ranges
FeedbackArgs == {-SCALE, 0, SCALE \div 2, (95 * SCALE) \div 100, (3 * SCALE) \div 2}

MixArgs == {-(SCALE \div 2), 0, (3 * SCALE) \div 10, SCALE, 2 * SCALE}

InitDelayNew ==
    /\ IdleOsc /\ IdleLp /\ IdleNorm /\ IdleChain /\ IdleAgc /\ IdleTwin /\ IdleSeed /\ IdlePair
    /\ delay = <<>>
    /\ \E a \in DelayArgs, feedback \in FeedbackArgs, mix \in MixArgs :
          feed = [mode |-> "new", stage |-> "args",
                  delay_ms |-> a, feedback |-> feedback, mix |-> mix]
    /\ dlast = <<>>
    /\ pushes = <<>>

\* DelayBuffer::new: the buffer, or the panic of with_capacity
DelayNew ==
    /\ feed.stage = "args"
    /\ IF CapacityOverflow(feed.delay_ms)
       THEN /\ delay' = delay
            /\ feed' = [feed EXCEPT !.stage = "panicked"]
       ELSE /\ delay' = DelayBufferNew(feed.delay_ms.ms, feed.feedback, feed.mix)
            /\ feed' = [feed EXCEPT !.stage = "built"]
    /\ UNCHANGED <<dlast, pushes, othersDelay>>

\* one call of DelayBuffer::process_sample on the buffer built
DelayNewProcessSample ==
    /\ feed.stage = "built"
    /\ Len(pushes) < MaxNewCalls
    /\ \E input \in InputLevels :
          LET call == ProcessSample(delay, input)
          IN  /\ delay' = call.state
              /\ dlast' = <<[input |-> call.input, delayed |-> call.delayed,
                             output |-> call.output]>>
              /\ pushes' = Append(pushes, call.pushed)
    /\ UNCHANGED <<feed, othersDelay>>

NextDelayNew ==
    \/ DelayNew
    \/ DelayNewProcessSample

SpecDelayNew == InitDelayNew /\ [][NextDelayNew]_vars

----------------------------------------------------------------------------
(* src/effects.rs: LowPassFilter *)

\* 2 * PI in units of 1/SCALE
TwoPi == 62832

\* alpha = dt / (rc + dt) with rc = 1 / (2 * PI * cutoff_frequency) and
\* dt = 1 / sample_rate, computed as 2*PI*cutoff / (sample_rate + 2*PI*cutoff),
\* the same quotient with numerator and denominator multiplied by
\* 2*PI*cutoff*sample_rate (rc itself is below the model's resolution)
LowPassAlpha(cutoff_frequency, sample_rate) ==
    LET w == Round(TwoPi * cutoff_frequency, SCALE)
    IN  Round(w * SCALE, sample_rate + w)

\* LowPassFilter::new
LowPassFilterNew(cutoff_frequency, sample_rate) ==
    [alpha |-> LowPassAlpha(cutoff_frequency, sample_rate), previous_output |-> 0]

\* the filter step with the (1 - alpha) weight of the previous output left out
LowPassOutputUnweighted(f, input) == Mul(f.alpha, input) + f.previous_output

\* output = self.alpha * input + (1.0 - self.alpha) * self.previous_output
LowPassOutput(f, input) ==
    Mul(f.alpha, input) + Mul(SCALE - f.alpha, f.previous_output)

\* LowPassFilter::process_sample: the filter after the call
LowPassProcess(f, input) == [f EXCEPT !.previous_output = LowPassOutput(f, input)]

\* reset leaving the filter as it is
LowPassResetKeep(f) == f

\* LowPassFilter::reset
LowPassReset(f) == [f EXCEPT !.previous_output = 0]

----------------------------------------------------------------------------
(* LowPassFilter specification: construction, then process_sample calls fed *)
(* with the step 1, 1, 1, ... or with freely chosen inputs, and reset       *)

MaxLpCalls == 30

MaxFreeCalls == 4

\* cutoff frequencies: 100 Hz, the presets muffled (1000) and smooth (4000),
\* and 20 kHz
Cutoffs == {100, 1000, 4000, 20000}

FreeInputs == {SCALE, 0, -SCALE}

InitLp ==
    /\ IdleOsc /\ IdleDelay /\ IdleNorm /\ IdleChain /\ IdleAgc /\ IdleTwin /\ IdleSeed /\ IdlePair
    /\ \E cutoff \in Cutoffs : lp = LowPassFilterNew(cutoff, SAMPLE_RATE)
    /\ lpfeed \in {"step", "free"}
    /\ lplast = <<>>
    /\ lpcalls = 0
    /\ lpwiped = <<>>

LpCall(input) ==
    /\ lp' = LowPassProcess(lp, input)
    /\ lplast' = <<[input |-> input, before |-> lp.previous_output,
                    output |-> LowPassOutput(lp, input)]>>
    /\ lpcalls' = lpcalls + 1
    /\ UNCHANGED <<lpfeed, lpwiped, othersLp>>

\* process_sample(1.0) of the step response
LpProcessStep ==
    /\ lpfeed = "step"
    /\ lpcalls < MaxLpCalls
    /\ LpCall(SCALE)

\* process_sample with any input
LpProcessSample ==
    /\ lpfeed = "free"
    /\ lpcalls < MaxFreeCalls
    /\ \E input \in FreeInputs : LpCall(input)

\* LowPassFilter::reset
LpReset ==
    /\ lpfeed = "free"
    /\ lpcalls < MaxFreeCalls
    /\ lp' = LowPassReset(lp)
    /\ lplast' = <<>>
    /\ lpcalls' = lpcalls + 1
    /\ lpwiped' = Append(lpwiped, lp.previous_output)
    /\ UNCHANGED <<lpfeed, othersLp>>

NextLp ==
    \/ LpProcessStep
    \/ LpProcessSample
    \/ LpReset

SpecLowPass == InitLp /\ [][NextLp]_vars

----------------------------------------------------------------------------
(* src/effects.rs: normalize_samples, peak_normalize *)

\* the peak search with the abs() left out
PeakLevelSigned(buffer) ==
    IF buffer = <<>> THEN 0
    ELSE CHOOSE x \in {buffer[i] : i \in 1..Len(buffer)} :
            \A i \in 1..Len(buffer) : buffer[i] <= x

\* samples.iter().map(|&x| x.abs()).fold(0.0f32, |acc, x| acc.max(x))
PeakLevel(buffer) == MaxAbs(buffer)

\* the 0.0001 of `if peak > 0.0001`
SilenceThreshold == SCALE \div 10000

\* the gain taken as the target itself, not divided by the peak
NormalizeGainFixed(target_peak, peak) == target_peak

\* gain = target_peak / peak
NormalizeGain(target_peak, peak) == Div(target_peak, peak)

\* the scaling applied to every buffer with a non-zero peak
NormalizeSamplesNoThreshold(buffer, target_peak) ==
    IF MaxAbs(buffer) = 0 THEN buffer
    ELSE [i \in 1..Len(buffer) |->
            Mul(buffer[i], NormalizeGain(target_peak, MaxAbs(buffer)))]

\* normalize_samples: the buffer after the call
NormalizeSamples(buffer, target_peak) ==
    IF buffer = <<>> THEN buffer
    ELSE LET peak == PeakLevel(buffer)
         IN  IF peak > SilenceThreshold
             THEN LET gain == NormalizeGain(target_peak, peak)
                  IN  [i \in 1..Len(buffer) |-> Mul(buffer[i], gain)]
             ELSE buffer

\* peak_normalize: the vector it returns
PeakNormalize(buffer, target_peak) == NormalizeSamples(buffer, target_peak)

----------------------------------------------------------------------------
(* Normalization specification: a buffer and a target peak, then            *)
(* normalize_samples / peak_normalize applied to it, possibly repeatedly    *)

MaxLen == 3

MaxApply == 2

\* sample values: zero, the threshold 1e-4 and its neighbours, ordinary levels
SampleValues == {-(8 * SCALE) \div 10, -1, 0, 1, 2, (3 * SCALE) \div 10, SCALE}

\* target_peak values: in (0, 1] (one of them the threshold 1e-4), zero,
\* negative, above 1
TargetPeaks ==
    {(8 * SCALE) \div 10, (9 * SCALE) \div 10, SCALE, 1,
     0, -((8 * SCALE) \div 10), (3 * SCALE) \div 2}

RECURSIVE Buffers(_)
\* the buffers of at most n samples
Buffers(n) ==
    IF n = 0 THEN {<<>>}
    ELSE LET shorter == Buffers(n - 1)
         IN  shorter \cup {Append(b, x) : b \in shorter, x \in SampleValues}

InitNorm ==
    /\ IdleOsc /\ IdleDelay /\ IdleLp /\ IdleChain /\ IdleAgc /\ IdleTwin /\ IdleSeed /\ IdlePair
    /\ samples \in Buffers(MaxLen)
    /\ original = samples
    /\ target \in TargetPeaks
    /\ napplied = 0

\* normalize_samples(&mut samples, target)
NormalizeInPlace ==
    /\ napplied < MaxApply
    /\ samples' = NormalizeSamples(samples, target)
    /\ napplied' = napplied + 1
    /\ UNCHANGED <<original, target, othersNorm>>

\* samples = peak_normalize(samples, target)
NormalizeByValue ==
    /\ napplied < MaxApply
    /\ samples' = PeakNormalize(samples, target)
    /\ napplied' = napplied + 1
    /\ UNCHANGED <<original, target, othersNorm>>

NextNorm ==
    \/ NormalizeInPlace
    \/ NormalizeByValue

SpecNorm == InitNorm /\ [][NextNorm]_vars

----------------------------------------------------------------------------
(* src/effects.rs: AutomaticGainControl *)

\* a * b on values scaled by SCALE, for factors whose plain product would not
\* fit the integers of the checker: the same value as Mul(a, b)
MulWide(a, b) ==
    LET q == Abs(a) \div SCALE
        r == Abs(a) % SCALE
    IN  Sign(a) * Sign(b) * (q * Abs(b) + (r * Abs(b) + SCALE \div 2) \div SCALE)

RECURSIVE ExpNeg(_)
\* exp(-x) for x >= 0 scaled by SCALE: the series 1 - x + x^2/2 - x^3/6 up to
\* x = 0.5, and exp(-x) = exp(-x/2) * exp(-x/2) above
ExpNeg(x) ==
    IF x <= SCALE \div 2
    THEN SCALE - x + Mul(x, x) \div 2 - Mul(Mul(x, x), x) \div 6
    ELSE Mul(ExpNeg(x \div 2), ExpNeg(x - x \div 2))

\* time * self.sample_rate with the time in microseconds: samples scaled by
\* SCALE (USEC = 100 * SCALE)
TimeInSamples(time_us) == time_us * (SAMPLE_RATE \div 100)

\* (-1.0 / (time * self.sample_rate)).exp()
SmoothingCoeff(time_us) == ExpNeg(Round(SCALE * SCALE, TimeInSamples(time_us)))

\* AutomaticGainControl::new
AgcNew(target_level, attack_time, release_time) ==
    [target_level      |-> Clamp(target_level, 0, SCALE),
     attack_time       |-> attack_time,
     release_time      |-> release_time,
     current_gain      |-> SCALE,
     envelope_follower |-> 0]

\* the envelope follower after a sample of magnitude input_level
EnvelopeFollower(a, input_level) ==
    LET coeff == IF input_level > a.envelope_follower
                 THEN SmoothingCoeff(a.attack_time)
                 ELSE SmoothingCoeff(a.release_time)
    IN  input_level + MulWide(a.envelope_follower - input_level, coeff)

\* the level under which the follower counts as silence, 0.0001
AgcSilence == SCALE \div 10000

\* required_gain for the envelope follower `follower`
RequiredGain(a, follower) ==
    IF follower > AgcSilence THEN Div(a.target_level, follower) ELSE SCALE

\* the limits of current_gain, 0.1 and 10.0
MinGain == SCALE \div 10

MaxGain == 10 * SCALE

\* current_gain left as smoothed, without the clamp
LimitGainOff(gain) == gain

\* self.current_gain.clamp(0.1, 10.0)
LimitGain(gain) == Clamp(gain, MinGain, MaxGain)

\* current_gain after smoothing towards required_gain and limiting
CurrentGain(a, required_gain) ==
    LET gain_diff  == required_gain - a.current_gain
        gain_coeff == IF gain_diff > 0
                      THEN SmoothingCoeff(a.release_time)
                      ELSE SmoothingCoeff(a.attack_time)
    IN  LimitGain(a.current_gain + MulWide(gain_diff, SCALE - gain_coeff))

\* AutomaticGainControl::process_sample: the control after the call
AgcProcess(a, input) ==
    LET follower == EnvelopeFollower(a, Abs(input))
    IN  [a EXCEPT !.envelope_follower = follower,
                  !.current_gain = CurrentGain(a, RequiredGain(a, follower))]

\* AutomaticGainControl::process_sample: input * self.current_gain
AgcOutput(a, input) == MulWide(input, AgcProcess(a, input).current_gain)

----------------------------------------------------------------------------
(* AutomaticGainControl specification: construction, then process_sample    *)
(* calls with freely chosen inputs                                          *)

MaxAgcCalls == 4

\* target_level with attack_time and release_time in microseconds: the one of
\* test_agc, AGC::gentle, AGC::limiter, and one with a target above the range
\* and times well under one sample period
AgcConfigs ==
    {<<SCALE \div 2, 10000, 100000>>,
     <<(7 * SCALE) \div 10, 3000, 100000>>,
     <<(95 * SCALE) \div 100, 1000, 50000>>,
     <<2 * SCALE, 10, 10>>}

\* silence, the smallest non-zero level, quiet, full scale both ways, and a
\* level far above full scale
AgcInputs == {0, 1, SCALE \div 100, SCALE, -SCALE, 20 * SCALE}

InitAgc ==
    /\ IdleOsc /\ IdleDelay /\ IdleLp /\ IdleNorm /\ IdleChain /\ IdleTwin /\ IdleSeed /\ IdlePair
    /\ \E c \in AgcConfigs : agc = AgcNew(c[1], c[2], c[3])
    /\ agclast = <<>>
    /\ agccalls = 0

\* one call of AutomaticGainControl::process_sample
AgcProcessSample ==
    /\ agccalls < MaxAgcCalls
    /\ \E input \in AgcInputs :
          /\ agc' = AgcProcess(agc, input)
          /\ agclast' = <<[input |-> input, output |-> AgcOutput(agc, input)]>>
    /\ agccalls' = agccalls + 1
    /\ UNCHANGED othersAgc

NextAgc == AgcProcessSample

SpecAgc == InitAgc /\ [][NextAgc]_vars

----------------------------------------------------------------------------
(* src/effects.rs: Echo, Reverb, LowPass wrapped around a source *)

\* Echo::new
EchoNew(delay_ms, feedback, mix) ==
    [kind |-> "Echo", delay_buffers |-> <<DelayBufferNew(delay_ms, feedback, mix)>>,
     filter |-> <<>>, agc |-> <<>>]

\* let delays = [29.0, 37.0, 41.0, 43.0, 47.0, 53.0, 59.0, 61.0], in ms
ReverbDelays == <<29, 37, 41, 43, 47, 53, 59, 61>>

\* Reverb::new handing the whole mix to every buffer
ReverbNewFullMix(room_size, damping, mix) ==
    [kind |-> "Reverb",
     delay_buffers |->
        [i \in 1..Len(ReverbDelays) |->
            DelayBufferNew(ReverbDelays[i] * room_size,
                           Mul(damping, (6 * SCALE) \div 10), mix)],
     filter |-> <<>>, agc |-> <<>>]

\* Reverb::new: delay_ms * room_size, damping * 0.6, mix * 0.125 per buffer
ReverbNew(room_size, damping, mix) ==
    [kind |-> "Reverb",
     delay_buffers |->
        [i \in 1..Len(ReverbDelays) |->
            DelayBufferNew(ReverbDelays[i] * room_size,
                           Mul(damping, (6 * SCALE) \div 10),
                           Mul(mix, (125 * SCALE) \div 1000))],
     filter |-> <<>>, agc |-> <<>>]

\* Reverb::small_room, Reverb::large_hall
ReverbSmallRoom == ReverbNew(SCALE \div 2, (3 * SCALE) \div 10, (2 * SCALE) \div 10)

ReverbLargeHall == ReverbNew((3 * SCALE) \div 2, SCALE \div 2, (4 * SCALE) \div 10)

\* LowPass::new
LowPassNew(cutoff_frequency) ==
    [kind |-> "LowPass", delay_buffers |-> <<>>,
     filter |-> LowPassFilterNew(cutoff_frequency, SAMPLE_RATE), agc |-> <<>>]

\* LowPass::smooth, LowPass::muffled
LowPassSmooth == LowPassNew(4000)

LowPassMuffled == LowPassNew(1000)

\* AGC::new, with the times in microseconds
AgcEffectNew(target_level, attack_time, release_time) ==
    [kind |-> "AGC", delay_buffers |-> <<>>, filter |-> <<>>,
     agc |-> AgcNew(target_level, attack_time, release_time)]

\* AGC::gentle, AGC::limiter
AgcGentle == AgcEffectNew((7 * SCALE) \div 10, 3000, 100000)

AgcLimiter == AgcEffectNew((95 * SCALE) \div 100, 1000, 50000)

\* the closures of Echo::next, Reverb::next, LowPass::next and AGC::next: the
\* effect after the sample and the sample returned
EchoProcess(e, sample) ==
    LET call == ProcessSample(e.delay_buffers[1], sample)
    IN  [state |-> [e EXCEPT !.delay_buffers = <<call.state>>], output |-> call.output]

RECURSIVE SumOutputs(_, _, _)
\* the sum of delay_buffer.process_sample(sample) over the first i buffers
SumOutputs(buffers, i, sample) ==
    IF i = 0 THEN 0
    ELSE SumOutputs(buffers, i - 1, sample) + ProcessSample(buffers[i], sample).output

\* the closure of Reverb::next: output = sample, output += each buffer's
\* process_sample(sample), output * 0.7
ReverbOutput(buffers, sample) ==
    Mul(sample + SumOutputs(buffers, Len(buffers), sample), (7 * SCALE) \div 10)

\* every delay buffer after process_sample(sample)
BuffersAfter(buffers, sample) ==
    [i \in 1..Len(buffers) |-> ProcessSample(buffers[i], sample).state]

ReverbProcess(e, sample) ==
    [state  |-> [e EXCEPT !.delay_buffers = BuffersAfter(@, sample)],
     output |-> ReverbOutput(e.delay_buffers, sample)]

LowPassEffectProcess(e, sample) ==
    [state  |-> [e EXCEPT !.filter = LowPassProcess(@, sample)],
     output |-> LowPassOutput(e.filter, sample)]

AgcEffectProcess(e, sample) ==
    [state  |-> [e EXCEPT !.agc = AgcProcess(@, sample)],
     output |-> AgcOutput(e.agc, sample)]

\* a caller-made source: `length` samples, the first 1.0 and the rest 0.0
ImpulseSource(length) ==
    [kind |-> "Impulse", current_sample |-> 0, length |-> length]

\* a caller-made source: `length` samples of the constant `level`
HoldSource(level, length) ==
    [kind |-> "Hold", current_sample |-> 0, length |-> length, level |-> level]

\* self.source.next(): its result and the source after it
SourceResult(o) ==
    IF o.kind = "Impulse"
    THEN IF o.current_sample >= o.length THEN None
         ELSE Some(IF o.current_sample = 0 THEN SCALE ELSE 0, 0, 0)
    ELSE IF o.kind = "Hold"
    THEN IF o.current_sample >= o.length THEN None
         ELSE Some(o.level, 0, 0)
    ELSE PullResult(o)

SourceState(o) ==
    IF o.kind \in {"Impulse", "Hold"}
    THEN IF o.current_sample >= o.length THEN o
         ELSE [o EXCEPT !.current_sample = @ + 1]
    ELSE PullState(o)

\* Source::channels, Source::sample_rate, Source::total_duration of a source:
\* the oscillators report one channel, their rate and Some(total_duration);
\* the caller-made sources one channel, the same rate and no duration
SourceChannels(o) == 1

SourceSampleRate(o) == SAMPLE_RATE

SourceTotalDuration(o) ==
    IF o.kind \in {"Impulse", "Hold"} THEN <<>> ELSE <<o.total_duration>>

\* Source for Echo, Reverb, LowPass, AGC: self.source.channels(),
\* self.source.sample_rate(), self.source.total_duration()
EffectChannels(e, o) == SourceChannels(o)

EffectSampleRate(e, o) == SourceSampleRate(o)

EffectTotalDuration(e, o) == SourceTotalDuration(o)

----------------------------------------------------------------------------
(* Effect-chain specification: a source (an oscillator or an impulse) with  *)
(* one effect wrapped around it, pulled through the effect                  *)

MaxImpulse == 4

MaxHold == 10

\* the pulls made on an effect after its first None
MaxNone == 2

\* Oscillator::new(440.0, WaveForm::Square, 0.1) of test_lowpass_effect
SquareTone == OscillatorNew(440, "Square", ToneDuration)

ChainSources ==
    {ImpulseSource(MaxImpulse)}
    \cup {HoldSource(c, MaxHold) : c \in {SCALE \div 4, -((3 * SCALE) \div 4)}}
    \cup {WithAdsr(OscillatorNew(440, w, ShortDuration), ShortADSR) :
             w \in {"Sine", "Square"}}
    \cup {WithAdsr(AddHarmonicTo(LayeredOscillatorNew(440, "Sine", ShortDuration),
                                 2 * SCALE, "Triangle", (3 * SCALE) \div 10),
                   ShortADSR)}

\* Echo, Reverb and LowPass configurations inside the documented ranges:
\* feedback in [0, 0.95], mix in [0, 1], room_size <= 2, damping <= 1
ChainEffects ==
    {EchoNew(d, f, m) : d \in {0, 7 * (SCALE \div 100), 50 * SCALE},
                        f \in {(3 * SCALE) \div 10, (95 * SCALE) \div 100},
                        m \in {(2 * SCALE) \div 10, SCALE}}
    \cup {ReverbSmallRoom, ReverbLargeHall,
          ReverbNew(0, SCALE, SCALE), ReverbNew(2 * SCALE, SCALE, 0)}
    \cup {LowPassSmooth, LowPassMuffled, LowPassNew(20000)}
    \cup {AgcGentle, AgcLimiter}

\* the source/effect pairs: every short source under every effect, and the
\* 0.1 s square tone under LowPass::smooth
ChainPairs ==
    (ChainSources \X ChainEffects) \cup {<<SquareTone, LowPassSmooth>>}

InitChain ==
    /\ IdleDelay /\ IdleLp /\ IdleNorm /\ IdleAgc /\ IdleTwin /\ IdleSeed /\ IdlePair
    /\ \E pair \in ChainPairs : osc = pair[1] /\ fx = pair[2]
    /\ out = NotPulled
    /\ fxout = NotPulled
    /\ srcpeak = 0
    /\ srcpulls = 0
    /\ fxpulls = [made |-> 0, samples |-> 0, nones |-> 0]

\* the source pulled twice, the first result dropped
PullSourceTwice ==
    /\ out' = SourceResult(SourceState(osc))
    /\ osc' = SourceState(SourceState(osc))
    /\ srcpulls' = srcpulls + 2
    /\ srcpeak' = srcpeak
    /\ UNCHANGED othersChain

\* self.source.next(): the effect's own part follows in each action
PullSource ==
    /\ out' = SourceResult(osc)
    /\ osc' = SourceState(osc)
    /\ srcpulls' = srcpulls + 1
    /\ srcpeak' = IF SourceResult(osc).some
                  THEN Max(srcpeak, Abs(SourceResult(osc).v))
                  ELSE srcpeak
    /\ UNCHANGED othersChain

\* the effect's own count of its next() calls
CountPull(some) ==
    fxpulls' = [made    |-> fxpulls.made + 1,
                samples |-> fxpulls.samples + (IF some THEN 1 ELSE 0),
                nones   |-> fxpulls.nones + (IF some THEN 0 ELSE 1)]

\* self.source.next().map(closure): the closure's result for a sample, None
\* and an untouched effect for None
MapSource(processed) ==
    LET r == SourceResult(osc)
    IN  /\ IF r.some
           THEN /\ fx' = processed.state
                /\ fxout' = Some(processed.output, 0, 0)
           ELSE /\ fx' = fx
                /\ fxout' = None
        /\ CountPull(r.some)

\* Echo::next
EchoNext ==
    /\ fx.kind = "Echo"
    /\ fxpulls.nones < MaxNone
    /\ PullSource
    /\ MapSource(EchoProcess(fx, SourceResult(osc).v))

\* Reverb::next
ReverbNext ==
    /\ fx.kind = "Reverb"
    /\ fxpulls.nones < MaxNone
    /\ PullSource
    /\ MapSource(ReverbProcess(fx, SourceResult(osc).v))

\* LowPass::next
LowPassNext ==
    /\ fx.kind = "LowPass"
    /\ fxpulls.nones < MaxNone
    /\ PullSource
    /\ MapSource(LowPassEffectProcess(fx, SourceResult(osc).v))

\* AGC::next
AgcNext ==
    /\ fx.kind = "AGC"
    /\ fxpulls.nones < MaxNone
    /\ PullSource
    /\ MapSource(AgcEffectProcess(fx, SourceResult(osc).v))

NextChain ==
    \/ EchoNext
    \/ ReverbNext
    \/ LowPassNext
    \/ AgcNext

SpecChain == InitChain /\ [][NextChain]_vars

----------------------------------------------------------------------------
(* Two identically configured effects, each fed its own stream              *)

MaxStream == 3

\* the closure of the effect's next() for its kind
EffectProcess(e, sample) ==
    CASE e.kind = "Echo"    -> EchoProcess(e, sample)
      [] e.kind = "Reverb"  -> ReverbProcess(e, sample)
      [] e.kind = "LowPass" -> LowPassEffectProcess(e, sample)
      [] e.kind = "AGC"     -> AgcEffectProcess(e, sample)

\* the sample after the one the n-th pull returns
UpstreamAhead(stream, n) ==
    IF n < Len(stream) THEN stream[n + 1] ELSE stream[n]

\* self.source.next() on the n-th pull of a stream
Upstream(stream, n) == stream[n]

StreamLevels == {SCALE, 0, -(SCALE \div 2)}

Streams == [1..MaxStream -> StreamLevels]

\* effects with a history: a one-sample feedback echo, an echo of one sample
\* of delay, a reverb, a low-pass, a limiter and a fast gain control
TwinEffects ==
    {EchoNew(0, (95 * SCALE) \div 100, SCALE),
     EchoNew(3 * (SCALE \div 100), SCALE \div 2, SCALE \div 2),
     ReverbNew(0, SCALE, SCALE),
     LowPassSmooth,
     AgcLimiter,
     AgcEffectNew(SCALE, 10, 10)}

InitTwin ==
    /\ IdleOsc /\ IdleDelay /\ IdleLp /\ IdleNorm /\ IdleChain /\ IdleAgc /\ IdleSeed /\ IdlePair
    /\ \E a \in Streams, b \in Streams : upstream = <<a, b>>
    /\ \E e \in TwinEffects : twin = <<e, e>>
    /\ twinout = <<<<>>, <<>>>>

\* one next() on each of the two effects
TwinNext ==
    /\ Len(twinout[1]) < MaxStream
    /\ LET n == Len(twinout[1]) + 1
           step == [i \in 1..2 |-> EffectProcess(twin[i], Upstream(upstream[i], n))]
       IN  /\ twin' = [i \in 1..2 |-> step[i].state]
           /\ twinout' = [i \in 1..2 |-> Append(twinout[i], step[i].output)]
    /\ UNCHANGED <<upstream, othersTwin>>

NextTwin == TwinNext

SpecTwin == InitTwin /\ [][NextTwin]_vars

----------------------------------------------------------------------------
(* Claims about the oscillators, checked under SpecOsc *)

\* floor(SAMPLE_RATE * d) of the exact value m * 2^e of a duration, e <= -12
FloorRateTimes(d) ==
    LET m == d.f[1]
        A == SAMPLE_RATE * (m \div Pow2(12))
        B == SAMPLE_RATE * (m % Pow2(12))
    IN  IF m = 0 THEN 0 ELSE (A + B \div Pow2(12)) \div Pow2(-d.f[2] - 12)

\* the oscillator generate_tone builds: Oscillator::new(f, w, d), default ADSR
GenerateTone == osc.kind = "Oscillator" /\ osc.adsr = ADSRDefault

\* C5: an Oscillator of duration 0.1 s at 44100 Hz yields exactly 4410 samples
\* before its first None, whatever the frequency and the waveform: the counter
\* never passes 4410 and a pull returns None only at 4410.
C5_ExactSampleCount ==
    (osc.kind = "Oscillator" /\ osc.total_duration = ToneDuration) =>
        /\ osc.current_sample <= SAMPLE_RATE \div 10
        /\ out = None => osc.current_sample = SAMPLE_RATE \div 10

C5_Witness ==
    /\ osc.kind = "Oscillator" /\ osc.total_duration = ToneDuration
    /\ osc.waveform = "Square" /\ osc.frequency = 1000
    /\ out = None /\ osc.current_sample = SAMPLE_RATE \div 10

\* C6 as claimed: generate_tone returns exactly floor(SAMPLE_RATE * d) samples
\* for every duration d >= 0.
C6_FloorSampleCount ==
    (GenerateTone /\ out = None) =>
        osc.current_sample = FloorRateTimes(osc.total_duration)

\* C6 as amended: generate_tone returns floor(SAMPLE_RATE * d) samples when the
\* time of sample index floor(SAMPLE_RATE * d) already reaches d, and one more
\* otherwise: the stream ends at the first index whose time is not below d.
C6_SampleCount ==
    (GenerateTone /\ out = None) =>
        LET F == FloorRateTimes(osc.total_duration)
        IN  osc.current_sample =
                IF F32Geq(F32Div(F, SAMPLE_RATE), osc.total_duration.f)
                THEN F ELSE F + 1

C6_Witness ==
    /\ GenerateTone /\ out = None
    /\ osc.total_duration = ShortDuration
    /\ osc.current_sample = FloorRateTimes(ShortDuration) + 1

\* C7: with attack > 0 and duration > 0 the first sample pulled from an
\* Oscillator or a LayeredOscillator is exactly 0, whatever the frequency,
\* waveform, layers and the other ADSR values.
C7_FirstSampleZero ==
    (out.some /\ osc.current_sample = 1 /\ osc.adsr.attack > 0) => out.v = 0

C7_Witness ==
    /\ out.some /\ osc.current_sample = 1 /\ out.v = 0
    /\ out.wave # 0
    /\ osc.kind = "LayeredOscillator" /\ Len(osc.layers) = MaxLayers

AllAmplitudesPositive ==
    \A i \in 1..Len(osc.layers) : osc.layers[i].amplitude > 0

\* C8: for a LayeredOscillator whose layers all have positive amplitude, for
\* any number of layers, the combined pre-envelope value lies in [-1, 1] and
\* every sample has magnitude at most 0.3.
C8_LayerNormalizationBound ==
    (osc.kind = "LayeredOscillator" /\ AllAmplitudesPositive /\ out.some) =>
        /\ Abs(out.wave) <= SCALE
        /\ Abs(out.v) <= Headroom

----------------------------------------------------------------------------
(* Claims about DelayBuffer, checked under SpecDelay *)

\* C1: for a DelayBuffer with delay_samples = D >= 1 the delayed value used by
\* the n-th call (n > D) is the value the (n-D)-th call pushed onto the
\* history, so with mix > 0 a non-zero input followed by zeros produces a
\* non-zero output D calls later.
C1_ReadsDelaySamplesBehind ==
    LET D == delay.delay_samples
        n == Len(pushes)
    IN  (D >= 1 /\ n > D) =>
            /\ dlast[1].delayed = pushes[n - D]
            /\ (feed.mode = "impulse" /\ delay.mix > 0 /\ n = D + 1) =>
                    dlast[1].output # 0

\* C9: a constant input c pumped through a DelayBuffer built with feedback
\* 0.95 (any delay, also one of 0 samples, any mix) never diverges: every
\* output and every history value has magnitude at most |c| / (1 - 0.95).
C9_DelayLineStability ==
    (feed.mode = "constant" /\ delay.feedback = (95 * SCALE) \div 100 /\ pushes # <<>>) =>
        LET limit == (Abs(feed.c) * SCALE) \div (SCALE - delay.feedback)
        IN  /\ Abs(dlast[1].output) <= limit
            /\ MaxAbs(delay.buffer) <= limit

C9_Witness ==
    /\ feed.mode = "constant" /\ delay.feedback = (95 * SCALE) \div 100
    /\ delay.delay_samples = 0 /\ delay.mix = SCALE
    /\ Len(pushes) = MaxCalls
    /\ Abs(dlast[1].output) > 10 * Abs(feed.c)

----------------------------------------------------------------------------
(* Claims about LowPassFilter, checked under SpecLowPass *)

\* C10 as claimed: for a fresh LowPassFilter with alpha in (0, 1) fed the
\* constant input 1.0, every output is strictly above the one before and
\* strictly below 1.0, and the distance to 1.0 shrinks by the factor
\* (1 - alpha) on every call (here: to within one unit of resolution).
C10_StepStrictlyIncreasing ==
    (lpfeed = "step" /\ lplast # <<>>) =>
        /\ lplast[1].before < lplast[1].output
        /\ lplast[1].output < SCALE
        /\ Abs((SCALE - lplast[1].output)
               - Mul(SCALE - lp.alpha, SCALE - lplast[1].before)) <= 1

\* C10 as amended: the outputs never decrease and never exceed 1.0, the first
\* one lies strictly between 0 and 1, and the distance to 1.0 shrinks by the
\* factor (1 - alpha) up to rounding (one unit of resolution).
C10_StepMonotoneNoOvershoot ==
    (lpfeed = "step" /\ lplast # <<>>) =>
        /\ lplast[1].before <= lplast[1].output
        /\ lplast[1].output <= SCALE
        /\ lpcalls = 1 => (0 < lplast[1].output /\ lplast[1].output < SCALE)
        /\ Abs((SCALE - lplast[1].output)
               - Mul(SCALE - lp.alpha, SCALE - lplast[1].before)) <= 1

\* the step response has stopped rising short of a further call
C10_Witness ==
    /\ lpfeed = "step" /\ lpcalls > 1
    /\ lplast[1].before = lplast[1].output
    /\ lplast[1].output > (99 * SCALE) \div 100

----------------------------------------------------------------------------
(* Claims about normalization, checked under SpecNorm *)

\* the 1e-3 tolerance of the normalization claims
PeakTolerance == SCALE \div 1000

\* C4 as claimed: for every buffer that is not all zeros and every target_peak
\* in (0, 1], after normalize_samples / peak_normalize the maximum absolute
\* value of the buffer is within 1e-3 of target_peak.
C4_PeakEqualsTarget ==
    (napplied >= 1 /\ MaxAbs(original) > 0 /\ 0 < target /\ target <= SCALE) =>
        Abs(MaxAbs(samples) - target) < PeakTolerance

\* C4 as amended: the same for every buffer whose peak absolute value exceeds
\* 1e-4 (a buffer with a peak of at most 1e-4 is left unchanged).
C4_PeakEqualsTargetAboveThreshold ==
    /\ (napplied >= 1 /\ MaxAbs(original) > SilenceThreshold
            /\ 0 < target /\ target <= SCALE) =>
            Abs(MaxAbs(samples) - target) < PeakTolerance
    /\ (napplied >= 1 /\ MaxAbs(original) <= SilenceThreshold) =>
            samples = original

C4_Witness ==
    /\ napplied = 1
    /\ Len(original) = MaxLen
    /\ MaxAbs(original) = (8 * SCALE) \div 10
    /\ original[1] = (3 * SCALE) \div 10
    /\ target = (9 * SCALE) \div 10
    /\ MaxAbs(samples) = target
    /\ samples # original

----------------------------------------------------------------------------
(* Claims about the effects, checked under SpecChain *)

\* C2: a unit impulse (1.0 followed by zeros) fed through Reverb never yields
\* an output sample of magnitude above 1, for every room_size <= 2.0,
\* damping <= 1.0 and mix in [0, 1].
C2_ReverbImpulseBounded ==
    (osc.kind = "Impulse" /\ fx.kind = "Reverb" /\ fxout.some) =>
        Abs(fxout.v) <= SCALE

\* C3: for valid parameters every sample produced by an Oscillator or a
\* LayeredOscillator, and every sample produced by an effect wrapped around
\* one of them, lies in [-1.0, 1.0].
C3_BoundedOutput ==
    osc.kind \in {"Oscillator", "LayeredOscillator"} =>
        /\ out.some => Abs(out.v) <= SCALE
        /\ fxout.some => Abs(fxout.v) <= SCALE

\* a Square Oscillator piped through LowPass::smooth
SquareThroughSmooth ==
    /\ osc.kind = "Oscillator" /\ osc.waveform = "Square"
    /\ fx = [LowPassSmooth EXCEPT !.filter.previous_output = fx.filter.previous_output]

----------------------------------------------------------------------------
(* Claims about AutomaticGainControl, checked under SpecAgc *)

\* current_gain lies in [0.1, 10.0]
GainWithinLimits == MinGain <= agc.current_gain /\ agc.current_gain <= MaxGain

----------------------------------------------------------------------------
(* Further claims about DelayBuffer, checked under SpecDelay *)

\* the capacity of the history: max(1, delay_samples)
Capacity == Max(1, delay.delay_samples)

\* C13: from the first call of process_sample on, the history length equals
\* the capacity max(1, delay_samples); it never exceeds the capacity between
\* calls; each call evicts exactly the oldest entry (of the zero-filled
\* history on the first call) and appends exactly one new entry.
C13_HistoryLengthIsCapacity ==
    /\ [](/\ Len(delay.buffer) <= Capacity
          /\ delay.max_delay_samples = Capacity
          /\ pushes # <<>> => Len(delay.buffer) = Capacity)
    /\ [][LET before == IF pushes = <<>>
                        THEN [i \in 1..Capacity |-> 0]
                        ELSE delay.buffer
          IN  /\ Len(pushes') = Len(pushes) + 1
              /\ delay'.buffer = Append(Tail(before), pushes'[Len(pushes')])]_vars

\* a history of three entries that has been shifted past its zero filling
C13_Witness ==
    /\ Capacity = 3
    /\ Len(pushes) = 5
    /\ delay.buffer = SubSeq(pushes, 3, 5)
    /\ \A i \in 1..3 : delay.buffer[i] # 0

----------------------------------------------------------------------------
(* Claims about DelayBuffer::new, checked under SpecDelayNew *)

\* capacity >= 1, feedback in [0, 0.95], mix in [0, 1], and the three are the
\* values DelayBuffer::new computed from its arguments
ConfigurationKept ==
    /\ delay.max_delay_samples >= 1
    /\ 0 <= delay.feedback /\ delay.feedback <= (95 * SCALE) \div 100
    /\ 0 <= delay.mix /\ delay.mix <= SCALE
    /\ delay.max_delay_samples = Max(DelaySamples(feed.delay_ms.ms), 1)
    /\ delay.feedback = Clamp(feed.feedback, 0, (95 * SCALE) \div 100)
    /\ delay.mix = Clamp(feed.mix, 0, SCALE)

----------------------------------------------------------------------------
(* Further claims about the oscillators, checked under SpecOsc *)

\* C15: exhaustion of an Oscillator or LayeredOscillator is terminal: once a
\* pull has returned None the exhaustion test holds, every later pull returns
\* None and leaves the sample counter (and the whole oscillator) unchanged; a
\* pull that returns a sample increments the counter by exactly one.
C15_ExhaustionIsTerminal ==
    /\ []((out.pulled /\ ~out.some) =>
             /\ Exhausted(osc)
             /\ PullResult(osc) = None
             /\ PullState(osc) = osc)
    /\ []((out.pulled /\ out.some) => osc.current_sample >= 1)
    /\ [][/\ (out.pulled /\ ~out.some) =>
                (~out'.some /\ osc'.current_sample = osc.current_sample)
          /\ (out'.pulled /\ out'.some /\ (out' # out \/ osc' # osc)) =>
                osc'.current_sample = osc.current_sample + 1
          /\ ~out'.some => osc'.current_sample = osc.current_sample]_vars

\* a layered oscillator that has returned None after its 45 samples
C15_Witness ==
    /\ osc.kind = "LayeredOscillator"
    /\ Len(osc.layers) >= 1
    /\ osc.total_duration = ShortDuration
    /\ out.pulled /\ ~out.some
    /\ osc.current_sample = 45

----------------------------------------------------------------------------
(* Further claims about the effects, checked under SpecChain *)

\* C16: Echo, Reverb, LowPass and AGC never alter stream shape: each pull of
\* the effect performs exactly one pull of its upstream, the effect returns
\* None exactly when the upstream returns None (so it yields as many samples
\* as the upstream), and the channels, sample_rate and total_duration it
\* reports equal the upstream's at every point of the stream.
C16_StreamShapeKept ==
    /\ srcpulls = fxpulls.made
    /\ fxout.pulled = out.pulled
    /\ fxout.some = out.some
    /\ fxpulls.samples = osc.current_sample
    /\ fxpulls.made = fxpulls.samples + fxpulls.nones
    /\ EffectChannels(fx, osc) = SourceChannels(osc)
    /\ EffectSampleRate(fx, osc) = SourceSampleRate(osc)
    /\ EffectTotalDuration(fx, osc) = SourceTotalDuration(osc)

\* an AGC over an oscillator, pulled past the end of its 45 samples
C16_Witness ==
    /\ fx.kind = "AGC"
    /\ osc.kind = "Oscillator"
    /\ fxpulls = [made |-> 47, samples |-> 45, nones |-> 2]
    /\ srcpulls = 47
    /\ ~fxout.some /\ ~out.some

----------------------------------------------------------------------------
(* Claims about two effects side by side, checked under SpecTwin *)

----------------------------------------------------------------------------
(* Further claims about normalization, checked under SpecNorm *)

\* two buffers of the same length that differ by less than the tolerance in
\* every sample
SameWithinTolerance(a, b) ==
    /\ Len(a) = Len(b)
    /\ \A i \in 1..Len(a) : Abs(a[i] - b[i]) < PeakTolerance

\* C18 as claimed: normalization is idempotent for every buffer and every
\* target_peak: applied to a buffer already normalized with the same target,
\* normalize_samples and peak_normalize leave it as it is (within tolerance).
C18_NormalizationIdempotent ==
    napplied >= 1 =>
        /\ SameWithinTolerance(NormalizeSamples(samples, target), samples)
        /\ SameWithinTolerance(PeakNormalize(samples, target), samples)

\* C18 as amended: the same for every buffer and every target_peak >= 0.
C18_NormalizationIdempotentNonNegative ==
    (napplied >= 1 /\ target >= 0) =>
        /\ SameWithinTolerance(NormalizeSamples(samples, target), samples)
        /\ SameWithinTolerance(PeakNormalize(samples, target), samples)

\* a buffer of three samples scaled by the first application and left alone
\* by the second
C18_Witness ==
    /\ napplied = MaxApply
    /\ target = (9 * SCALE) \div 10
    /\ original = <<(3 * SCALE) \div 10, -((8 * SCALE) \div 10), 2>>
    /\ samples # original
    /\ samples = NormalizeSamples(original, target)

\* every sample times target_peak / peak, for the peak of absolute values
ScaledByTargetOverPeak(before, after) ==
    /\ Len(after) = Len(before)
    /\ \A i \in 1..Len(before) :
          after[i] = Mul(before[i], Div(target, MaxAbs(before)))

\* no sample has changed to the opposite sign, zero samples are still zero,
\* and the samples are in the same order of size
SignsAndOrderKept(before, after) ==
    /\ Len(after) = Len(before)
    /\ \A i \in 1..Len(before) :
          /\ before[i] > 0 => after[i] >= 0
          /\ before[i] < 0 => after[i] <= 0
          /\ before[i] = 0 => after[i] = 0
    /\ \A i, j \in 1..Len(before) : before[i] <= before[j] => after[i] <= after[j]

\* C19 as claimed: normalize_samples on an empty buffer, or on one whose peak
\* absolute value is at most 1e-4, leaves every sample unchanged; when the
\* peak exceeds 1e-4 every sample is multiplied by target_peak / peak, so
\* length, order, signs and zero samples are preserved.
C19_NoOpOrUniformScaling ==
    [][IF MaxAbs(samples) <= SilenceThreshold
       THEN samples' = samples
       ELSE /\ ScaledByTargetOverPeak(samples, samples')
            /\ SignsAndOrderKept(samples, samples')]_vars

\* C19 as amended: the same, with signs and order preserved for a
\* target_peak >= 0 only (a sample may be rounded to zero).
C19_NoOpOrUniformScalingSignsIfNonNegative ==
    [][IF MaxAbs(samples) <= SilenceThreshold
       THEN samples' = samples
       ELSE /\ ScaledByTargetOverPeak(samples, samples')
            /\ target >= 0 => SignsAndOrderKept(samples, samples')]_vars

\* a buffer with a positive, a negative and a zero sample scaled up to the
\* target 1.0
C19_Witness ==
    /\ napplied = 1
    /\ target = SCALE
    /\ original = <<(3 * SCALE) \div 10, 0, -((8 * SCALE) \div 10)>>
    /\ samples = <<(375 * SCALE) \div 1000, 0, -SCALE>>

----------------------------------------------------------------------------
(* Claims about the envelope, checked under SpecOsc *)

\* C20: the ADSR envelope multiplier lies in [0, 1] at every time the
\* oscillator reaches, for every ADSR with attack, decay, release > 0 and
\* sustain in [0, 1], also when attack + decay + release exceeds
\* total_duration.
C20_EnvelopeInUnitInterval ==
    out.some =>
        /\ 0 <= out.envelope /\ out.envelope <= SCALE
        /\ out.envelope =
              GetAmplitudeEnvelope(osc, TimeOf(osc.current_sample - 1))

\* the release ramp of an ADSR whose phases overlap (attack + decay + release
\* is 1.5 ms in a tone of 1 ms), close to its end
C20_Witness ==
    /\ out.some
    /\ osc.adsr = OverlapADSR
    /\ osc.total_duration = ShortDuration
    /\ osc.adsr.attack + osc.adsr.decay + osc.adsr.release > osc.total_duration.us
    /\ TimeOf(osc.current_sample - 1) >= osc.adsr.attack + osc.adsr.decay
    /\ 0 < out.envelope /\ out.envelope < SCALE \div 10

----------------------------------------------------------------------------
(* JingleGenerator seeds (src/export.rs)                                    *)
(* A u64 is kept at its width as four 16-bit limbs, least significant       *)
(* first, so that wrapping addition wraps where the program's does.         *)

LimbBase == 2 ^ 16

LimbMax == LimbBase - 1

U64Limbs == 4

\* the u64 of value l[1] + l[2]*2^16 + l[3]*2^32 + l[4]*2^48
U64Of(a, b, c, d) == <<a, b, c, d>>

U64Small(n) == U64Of(n, 0, 0, 0)

U64Max == U64Of(LimbMax, LimbMax, LimbMax, LimbMax)

\* the carry into limb i of a + b
RECURSIVE CarryInto(_, _, _)
CarryInto(a, b, i) ==
    IF i = 1 THEN 0
    ELSE (a[i - 1] + b[i - 1] + CarryInto(a, b, i - 1)) \div LimbBase

\* u64::MAX when a + b does not fit
SaturatingAdd(a, b) ==
    IF CarryInto(a, b, U64Limbs + 1) = 1 THEN U64Max
    ELSE [i \in 1..U64Limbs |-> (a[i] + b[i] + CarryInto(a, b, i)) % LimbBase]

\* u64::wrapping_add
WrappingAdd(a, b) ==
    [i \in 1..U64Limbs |-> (a[i] + b[i] + CarryInto(a, b, i)) % LimbBase]

\* Option<u64>
NoSeed == <<>>

SomeSeed(seed) == <<seed>>

\* StdRng::from_entropy(): a state no seed determines
StdRngFromEntropy == [seeded |-> NoSeed, draws |-> 0]

\* StdRng::seed_from_u64(seed): the state the seed determines, nothing drawn
StdRngSeedFromU64(seed) == [seeded |-> SomeSeed(seed), draws |-> 0]

\* JingleGenerator::new()
GeneratorNew ==
    [sample_rate |-> SAMPLE_RATE, rng |-> StdRngFromEntropy, current_seed |-> NoSeed]

\* JingleGenerator::with_seed(seed)
GeneratorWithSeed(seed) ==
    [sample_rate |-> SAMPLE_RATE, rng |-> StdRngSeedFromU64(seed),
     current_seed |-> SomeSeed(seed)]

\* Result<T>: Ok(value) or Err(JingleError::RandomError(..))
Ok(value) == [ok |-> TRUE, value |-> <<value>>, error |-> ""]

ErrRandom == [ok |-> FALSE, value |-> <<>>, error |-> "RandomError"]

\* reset_seed(&mut self): the generator afterwards and the result
ResetSeed(g) ==
    IF g.current_seed # NoSeed
    THEN [state  |-> [g EXCEPT !.rng = StdRngSeedFromU64(g.current_seed[1])],
          result |-> Ok("unit")]
    ELSE [state |-> g, result |-> ErrRandom]

\* set_seed(&mut self, seed)
SetSeed(g, seed) ==
    [g EXCEPT !.rng = StdRngSeedFromU64(seed), !.current_seed = SomeSeed(seed)]

\* fork(&self)
Fork(g) ==
    IF g.current_seed # NoSeed THEN Ok(GeneratorWithSeed(g.current_seed[1]))
    ELSE ErrRandom

\* derive_seed(&self, variation)
DeriveSeed(g, variation) ==
    IF g.current_seed # NoSeed
    THEN Ok(GeneratorWithSeed(WrappingAdd(g.current_seed[1], variation)))
    ELSE ErrRandom

\* self.rng.gen_range(..): the rng moves on by one draw
RngDraw(g) == [g EXCEPT !.rng.draws = @ + 1]

MaxDraws == 2

\* 0, 1, the seed of the tests, 2^32 - 1, 2^63 and u64::MAX
Seeds ==
    {U64Small(0), U64Small(1), U64Small(12345), U64Of(LimbMax, LimbMax, 0, 0),
     U64Of(0, 0, 0, 2 ^ 15), U64Max}

\* 0, 1, the variation of the tests, 2^32 + 1, 2^63 and u64::MAX
Variations ==
    {U64Small(0), U64Small(1), U64Small(100), U64Of(1, 0, 1, 0),
     U64Of(0, 0, 0, 2 ^ 15), U64Max}

Called(op, arg, before, result) ==
    <<[op |-> op, arg |-> arg, before |-> before, result |-> result]>>

InitSeed ==
    /\ IdleOsc /\ IdleDelay /\ IdleLp /\ IdleNorm /\ IdleChain /\ IdleAgc /\ IdleTwin /\ IdlePair
    /\ gen \in {GeneratorNew} \cup {GeneratorWithSeed(s) : s \in Seeds}
    /\ genlast = <<>>

GenResetSeed ==
    /\ gen' = ResetSeed(gen).state
    /\ genlast' = Called("reset_seed", <<>>, gen, ResetSeed(gen).result)
    /\ UNCHANGED othersSeed

GenSetSeed ==
    /\ \E s \in Seeds :
          /\ gen' = SetSeed(gen, s)
          /\ genlast' = Called("set_seed", <<s>>, gen, Ok("unit"))
    /\ UNCHANGED othersSeed

GenFork ==
    /\ genlast' = Called("fork", <<>>, gen, Fork(gen))
    /\ UNCHANGED <<gen, othersSeed>>

GenDeriveSeed ==
    /\ \E v \in Variations :
          genlast' = Called("derive_seed", <<v>>, gen, DeriveSeed(gen, v))
    /\ UNCHANGED <<gen, othersSeed>>

GenRandomVariation ==
    /\ gen.rng.draws < MaxDraws
    /\ gen' = RngDraw(gen)
    /\ genlast' = Called("random_variation", <<>>, gen, Ok("f32"))
    /\ UNCHANGED othersSeed

NextSeed ==
    \/ GenResetSeed
    \/ GenSetSeed
    \/ GenFork
    \/ GenDeriveSeed
    \/ GenRandomVariation

SpecSeed == InitSeed /\ [][NextSeed]_vars

----------------------------------------------------------------------------
(* Claims about the generator's seed, checked under SpecSeed *)

SeedOperations == {"reset_seed", "fork", "derive_seed"}

\* sum is (a + b) mod 2^64: limb by limb a + b equals sum plus the carries,
\* the carry out of the top limb dropped
IsSumMod64(a, b, sum) ==
    \E c \in [1..U64Limbs -> {0, 1}] :
        \A i \in 1..U64Limbs :
            a[i] + b[i] + (IF i = 1 THEN 0 ELSE c[i - 1]) = sum[i] + c[i] * LimbBase

\* C21: on a generator without a seed, reset_seed, fork and derive_seed each
\* return an error and leave the seed None; on a generator with seed s each
\* succeeds, fork returning a generator with seed s and derive_seed(v) one
\* with seed (s + v) mod 2^64.
C21_SeedOperations ==
    \A r \in {genlast[i] : i \in 1..Len(genlast)} :
        r.op \in SeedOperations =>
            IF r.before.current_seed = NoSeed
            THEN /\ ~r.result.ok
                 /\ r.result.error = "RandomError"
                 /\ gen.current_seed = NoSeed
            ELSE /\ r.result.ok
                 /\ gen.current_seed = r.before.current_seed
                 /\ r.op = "fork" =>
                        r.result.value[1].current_seed = r.before.current_seed
                 /\ r.op = "derive_seed" =>
                        /\ r.result.value[1].current_seed # NoSeed
                        /\ IsSumMod64(r.before.current_seed[1], r.arg[1],
                                      r.result.value[1].current_seed[1])

\* derive_seed(1) on a generator with seed u64::MAX has wrapped to seed 0
C21_Witness ==
    /\ genlast # <<>>
    /\ genlast[1].op = "derive_seed"
    /\ genlast[1].before.current_seed = SomeSeed(U64Max)
    /\ genlast[1].arg = <<U64Small(1)>>
    /\ genlast[1].result.ok
    /\ genlast[1].result.value[1].current_seed = SomeSeed(U64Small(0))

----------------------------------------------------------------------------
(* Claims about Reverb's sum, checked under SpecChain *)

\* the wet (delayed) contributions of the first i buffers to a sample
RECURSIVE WetSum(_, _, _)
WetSum(buffers, i, sample) ==
    IF i = 0 THEN 0
    ELSE WetSum(buffers, i - 1, sample)
         + Mul(ProcessSample(buffers[i], sample).delayed, buffers[i].mix)

\* C22: for each upstream sample x, Reverb outputs 0.7 * (x + the sum of the
\* 8 taps' wet contributions): the dry sample enters the total exactly once,
\* so a Reverb built with mix = 0 outputs exactly 0.7 * x.
C22_DryCountedOnce ==
    [][(ReverbNext /\ fxout'.some) =>
          fxout'.v = Mul(out'.v + WetSum(fx.delay_buffers, Len(fx.delay_buffers), out'.v),
                         (7 * SCALE) \div 10)]_vars

----------------------------------------------------------------------------
(* Claims about process_sample's two sums, checked under SpecDelay *)

\* C23: process_sample(input), with `delayed` the value it read from the
\* history, appends input + delayed * feedback and returns
\* input * (1 - mix) + delayed * mix; with mix = 0 the returned value equals
\* the input on every call, whatever the history holds.
C23_FeedbackAndMix ==
    pushes # <<>> =>
        LET call == dlast[1]
        IN  /\ call.input = FeedInput(Len(pushes))
            /\ pushes[Len(pushes)] = call.input + Mul(call.delayed, delay.feedback)
            /\ delay.buffer[Len(delay.buffer)] = pushes[Len(pushes)]
            /\ call.output =
                  Mul(call.input, SCALE - delay.mix) + Mul(call.delayed, delay.mix)
            /\ delay.mix = 0 => call.output = call.input

\* a dry-only buffer whose history holds a non-zero delayed value: the call
\* returned its input and pushed more than its input
C23_Witness ==
    /\ pushes # <<>>
    /\ delay.mix = 0
    /\ dlast[1].delayed > 0
    /\ dlast[1].input > 0
    /\ dlast[1].output = dlast[1].input
    /\ pushes[Len(pushes)] > dlast[1].input

----------------------------------------------------------------------------
(* Claims about the envelope's phases, checked under SpecOsc *)

\* the four phases as claimed, in order
ClaimedEnvelope(t, attack, decay, sustain, release, total) ==
    IF t < attack THEN Div(t, attack)
    ELSE IF t < attack + decay THEN
        SCALE - Mul(Div(t - attack, decay), SCALE - sustain)
    ELSE IF t < total - release THEN sustain
    ELSE Mul(sustain, SCALE - Div(t - (total - release), release))

\* what the steepest ramp of the envelope changes by in one microsecond
RampStep(o) ==
    Max(Max(Div(SCALE, o.adsr.attack), Div(SCALE, o.adsr.decay)),
        Div(SCALE, o.adsr.release)) + 1

\* the envelope does not jump at time b: one microsecond to either side it
\* differs from its value at b by no more than a ramp's step
ContinuousAt(o, b) ==
    /\ b >= 1 =>
          Abs(GetAmplitudeEnvelope(o, b) - GetAmplitudeEnvelope(o, b - 1)) <= RampStep(o)
    /\ b + 1 < o.total_duration.us =>
          Abs(GetAmplitudeEnvelope(o, b + 1) - GetAmplitudeEnvelope(o, b)) <= RampStep(o)

PhasesFit(o) ==
    o.adsr.attack + o.adsr.decay + o.adsr.release <= o.total_duration.us

\* C24: the envelope is four linear phases tested in order (attack: t/attack;
\* decay: 1 - ((t - attack)/decay)(1 - sustain); sustain; release:
\* sustain * (1 - (t - (total - release))/release)); when attack + decay +
\* release <= total_duration it is continuous across the three boundaries,
\* with value 1 at t = attack and sustain at t = attack + decay and at
\* t = total - release.
C24_FourPhasesContinuous ==
    out.some =>
        /\ out.envelope =
              ClaimedEnvelope(TimeOf(osc.current_sample - 1), osc.adsr.attack,
                              osc.adsr.decay, osc.adsr.sustain, osc.adsr.release,
                              osc.total_duration.us)
        /\ PhasesFit(osc) =>
              /\ GetAmplitudeEnvelope(osc, osc.adsr.attack) = SCALE
              /\ GetAmplitudeEnvelope(osc, osc.adsr.attack + osc.adsr.decay)
                    = osc.adsr.sustain
              /\ GetAmplitudeEnvelope(osc, osc.total_duration.us - osc.adsr.release)
                    = osc.adsr.sustain
              /\ ContinuousAt(osc, osc.adsr.attack)
              /\ ContinuousAt(osc, osc.adsr.attack + osc.adsr.decay)
              /\ ContinuousAt(osc, osc.total_duration.us - osc.adsr.release)

\* a sample on the release ramp of an envelope that fits its tone exactly
\* (attack + decay + release = total_duration)
C24_Witness ==
    /\ out.some
    /\ osc.adsr = ExactFitADSR
    /\ osc.total_duration = ShortDuration
    /\ PhasesFit(osc)
    /\ TimeOf(osc.current_sample - 1) > osc.total_duration.us - osc.adsr.release
    /\ 0 < out.envelope /\ out.envelope < osc.adsr.sustain

----------------------------------------------------------------------------
(* Claims about layers whose amplitudes do not sum above 0, under SpecOsc *)

TotalAmplitude(o) == SumAmplitudes(o.layers, Len(o.layers))

\* the number of samples a stream of duration d yields: the first index whose
\* time is not below d
SampleCount(d) ==
    LET F == FloorRateTimes(d)
    IN  IF F32Geq(F32Div(F, SAMPLE_RATE), d.f) THEN F ELSE F + 1

\* C25: when the sum of a LayeredOscillator's layer amplitudes is not greater
\* than 0, every sample is exactly 0 (the combined value is 0, nothing is
\* divided by the sum), and the stream yields the number of samples its
\* duration gives with any other layers.
C25_NonPositiveSumIsSilent ==
    (osc.kind = "LayeredOscillator" /\ TotalAmplitude(osc) <= 0) =>
        /\ out.some => out.wave = 0 /\ out.v = 0
        /\ osc.current_sample <= SampleCount(osc.total_duration)
        /\ out = None => osc.current_sample = SampleCount(osc.total_duration)

\* a sample of a stream whose amplitudes sum below 0, at a time where the
\* layers' waves do not cancel and the envelope is open
C25_Witness ==
    /\ osc.kind = "LayeredOscillator"
    /\ TotalAmplitude(osc) < 0
    /\ out.some /\ out.v = 0
    /\ out.envelope > 0
    /\ SumLayerWaves(osc, Len(osc.layers), TimeOf(osc.current_sample - 1)) # 0

----------------------------------------------------------------------------
(* Claims about the layer builders, checked under SpecOsc *)

\* a builder call: the oscillator changed before anything was pulled
AddCall == osc' # osc /\ ~out'.pulled

\* exactly one layer appended at the end, everything else as it was
AppendsOneLayer ==
    /\ Len(osc'.layers) = Len(osc.layers) + 1
    /\ SubSeq(osc'.layers, 1, Len(osc.layers)) = osc.layers
    /\ osc' = [osc EXCEPT !.layers = osc'.layers]
    /\ out' = out

\* new() made one layer of ratio 1.0 and amplitude 1.0 with the given
\* waveform, and it is still the first
FirstLayerKept ==
    osc.kind = "LayeredOscillator" =>
        /\ Len(osc.layers) >= 1
        /\ osc.layers[1] = Layer(SCALE, osc.waveform, SCALE, 0)

\* the layer a call of add_detune(cents, ..) appended
DetuneStored(cents) == osc'.layers[Len(osc'.layers)].frequency_offset

DetuneCall(cents) ==
    /\ Building
    /\ osc' = AddDetuneTo(osc, cents, "Sawtooth", SCALE \div 2)

\* C26 as claimed: LayeredOscillator::new creates exactly one layer (ratio
\* 1.0, amplitude 1.0, the given waveform); add_layer, add_harmonic and
\* add_detune each append exactly one layer at the end and leave the existing
\* layers, their order, the base frequency, the ADSR, the duration and the
\* sample counter unchanged, so the layer count is 1 + the number of add
\* calls and never 0; add_detune with cents > 0 stores a ratio > 1.
C26_BuildersAppendDetuneAboveOne ==
    /\ (osc.kind = "LayeredOscillator" => Len(osc.layers) = 1)
    /\ []FirstLayerKept
    /\ [][AddCall => AppendsOneLayer]_vars
    /\ [][\A cents \in DetuneCents :
            (DetuneCall(cents) /\ cents > 0) => DetuneStored(cents) > SCALE]_vars

\* C26 as amended: the same, with add_detune storing a ratio >= 1 for
\* cents > 0, and a ratio > 1 for cents >= 1.
C26_BuildersAppend ==
    /\ (osc.kind = "LayeredOscillator" => Len(osc.layers) = 1)
    /\ []FirstLayerKept
    /\ [][AddCall => AppendsOneLayer]_vars
    /\ [][\A cents \in DetuneCents :
            (DetuneCall(cents) /\ cents > 0) =>
                /\ DetuneStored(cents) >= SCALE
                /\ cents >= SCALE => DetuneStored(cents) > SCALE]_vars

\* three layers before the first pull: the one new() made, a detune of 10
\* cents stored above 1 and a detune of 0.0001 cents stored as exactly 1
C26_Witness ==
    /\ osc.kind = "LayeredOscillator" /\ ~out.pulled
    /\ Len(osc.layers) = 3
    /\ osc.layers[1] = Layer(SCALE, osc.waveform, SCALE, 0)
    /\ osc.layers[2] = Layer(DetuneRatio(10 * SCALE), "Sawtooth", SCALE \div 2, 0)
    /\ osc.layers[2].frequency_offset > SCALE
    /\ osc.layers[3] = Layer(SCALE, "Sawtooth", SCALE \div 2, 0)

----------------------------------------------------------------------------
(* Claims about LowPassFilter::reset, checked under SpecLowPass *)

\* the outputs of process_sample over a sequence of inputs, from filter f on
RECURSIVE OutputsOf(_, _)
OutputsOf(f, inputs) ==
    IF inputs = <<>> THEN <<>>
    ELSE <<LowPassOutput(f, Head(inputs))>>
         \o OutputsOf(LowPassProcess(f, Head(inputs)), Tail(inputs))

InputSequences == UNION {[1..n -> FreeInputs] : n \in 1..3}

\* the step was a reset / a process_sample
ResetCall == Len(lpwiped') = Len(lpwiped) + 1

ProcessCall == lpcalls' = lpcalls + 1 /\ lpwiped' = lpwiped

\* C27: reset returns the filter to silence: after any sequence of
\* process_sample calls followed by reset, the outputs for any further input
\* sequence equal those of a freshly constructed filter with the same cutoff
\* and sample rate; reset leaves alpha unchanged; process_sample changes
\* only previous_output.
C27_ResetIsFresh ==
    /\ [][ResetCall =>
            /\ lp'.alpha = lp.alpha
            /\ \E cutoff \in Cutoffs :
                  /\ lp.alpha = LowPassAlpha(cutoff, SAMPLE_RATE)
                  /\ lp' = LowPassFilterNew(cutoff, SAMPLE_RATE)
                  /\ \A inputs \in InputSequences :
                        OutputsOf(lp', inputs) =
                            OutputsOf(LowPassFilterNew(cutoff, SAMPLE_RATE), inputs)]_vars
    /\ [][ProcessCall =>
            lp' = [lp EXCEPT !.previous_output = lplast'[1].output]]_vars

\* process_sample, reset, process_sample: the reset overwrote a non-zero
\* previous_output and the call after it started from silence
C27_Witness ==
    /\ lpcalls = 3
    /\ Len(lpwiped) = 1 /\ lpwiped[1] # 0
    /\ lplast # <<>>
    /\ lplast[1].before = 0
    /\ lplast[1].input = SCALE
    /\ lplast[1].output = Mul(lp.alpha, SCALE)

----------------------------------------------------------------------------
(* Two separately constructed streams pulled in any interleaving            *)
(* A stream is an oscillator alone or an oscillator inside one effect; each *)
(* value owns its fields (Oscillator.current_sample, the effect's history), *)
(* and next(&mut self) reaches nothing but them.                            *)

MaxPairPulls == 3

NoEffect == [kind |-> "None"]

Stream(source, effect) == [source |-> source, effect |-> effect]

\* one next() on a stream: the stream after it and the result
StreamNext(s) ==
    LET r == SourceResult(s.source)
    IN  IF s.effect.kind = "None" \/ ~r.some
        THEN [state  |-> [s EXCEPT !.source = SourceState(s.source)],
              result |-> IF r.some THEN Some(r.v, 0, 0) ELSE None]
        ELSE [state  |-> Stream(SourceState(s.source),
                                EffectProcess(s.effect, r.v).state),
              result |-> Some(EffectProcess(s.effect, r.v).output, 0, 0)]

\* what a next() on one stream would do to another stream if the two shared
\* the sample counter
OtherStreamAdvanced(s) == [s EXCEPT !.source = SourceState(s.source)]

\* what a next() on one stream does to another stream: nothing
OtherStream(s) == s

\* a tone of one sample, a 1 ms square tone, a 1 ms layered tone
PairSources ==
    {OscillatorNew(440, "Sine", TinyDuration),
     WithAdsr(OscillatorNew(1000, "Square", ShortDuration), ShortADSR),
     WithAdsr(AddHarmonicTo(LayeredOscillatorNew(440, "Triangle", ShortDuration),
                            2 * SCALE, "Sine", (3 * SCALE) \div 10),
              ShortADSR)}

PairEffects ==
    {NoEffect, EchoNew(0, (95 * SCALE) \div 100, SCALE), LowPassSmooth,
     ReverbSmallRoom, AgcEffectNew(SCALE, 10, 10)}

PairStreams == {Stream(source, effect) : source \in PairSources, effect \in PairEffects}

InitPair ==
    /\ IdleOsc /\ IdleDelay /\ IdleLp /\ IdleNorm /\ IdleChain /\ IdleAgc /\ IdleTwin /\ IdleSeed
    /\ \E a \in PairStreams, b \in PairStreams : pairnew = <<a, b>>
    /\ pairnow = pairnew
    /\ pairout = <<<<>>, <<>>>>

\* next() on stream i
PairPull(i) ==
    /\ Len(pairout[i]) < MaxPairPulls
    /\ pairnow' = [k \in 1..2 |-> IF k = i THEN StreamNext(pairnow[i]).state
                               ELSE OtherStream(pairnow[k])]
    /\ pairout' = [pairout EXCEPT ![i] = Append(@, StreamNext(pairnow[i]).result)]
    /\ UNCHANGED <<pairnew, othersPair>>

NextPair == \E i \in 1..2 : PairPull(i)

SpecPair == InitPair /\ [][NextPair]_vars

----------------------------------------------------------------------------
(* Claims about independent streams, checked under SpecPair *)

\* the first n results of a stream pulled alone
RECURSIVE PulledAlone(_, _)
PulledAlone(s, n) ==
    IF n = 0 THEN <<>>
    ELSE <<StreamNext(s).result>> \o PulledAlone(StreamNext(s).state, n - 1)

----------------------------------------------------------------------------
(* Reverb::new over the range of its arguments, then pulls                  *)

MaxReverbPulls == 3

\* a room_size argument: size * 2^pow2, size in units of 1/SCALE
RoomArg(size, pow2) == [size |-> size, pow2 |-> pow2]

\* the delay_ms Reverb::new hands to the i-th DelayBuffer::new
ActualDelay(room, i) == DelayArg(ReverbDelays[i] * room.size, room.pow2)

\* room sizes 0.5 (small_room), 2.0, 0, -1, and 2^61 and 2^127 times 0.5
RoomArgs ==
    {RoomArg(size, 0) : size \in {SCALE \div 2, 2 * SCALE, 0, -SCALE}}
    \cup {RoomArg(SCALE \div 2, e) : e \in {UsizeBits - 3, 127}}

\* damping below, inside and above [0, 1]: 0.6 * damping passes 0.95 above 1.58
DampingArgs == {-SCALE, (3 * SCALE) \div 10, SCALE, 2 * SCALE}

ReverbMixArgs == {-SCALE, 0, (2 * SCALE) \div 10, SCALE, 10 * SCALE}

InitReverbNew ==
    /\ IdleLp /\ IdleNorm /\ IdleAgc /\ IdleTwin /\ IdleSeed /\ IdlePair
    /\ delay = <<>> /\ dlast = <<>> /\ pushes = <<>>
    /\ \E room \in RoomArgs, damping \in DampingArgs, mix \in ReverbMixArgs :
          feed = [mode |-> "reverb", stage |-> "args",
                  room_size |-> room, damping |-> damping, mix |-> mix]
    /\ osc \in {ImpulseSource(MaxReverbPulls), HoldSource(-(SCALE \div 2), MaxReverbPulls)}
    /\ fx = <<>>
    /\ out = NotPulled
    /\ fxout = NotPulled
    /\ srcpeak = 0
    /\ srcpulls = 0
    /\ fxpulls = [made |-> 0, samples |-> 0, nones |-> 0]

\* Reverb::new: the eight buffers in the order of `delays`, or the panic of
\* the first DelayBuffer::new whose capacity overflows
ReverbConstruct ==
    /\ feed.stage = "args"
    /\ IF \E i \in 1..Len(ReverbDelays) : CapacityOverflow(ActualDelay(feed.room_size, i))
       THEN /\ fx' = fx
            /\ feed' = [feed EXCEPT !.stage = "panicked"]
       ELSE /\ fx' = ReverbNew(feed.room_size.size, feed.damping, feed.mix)
            /\ feed' = [feed EXCEPT !.stage = "built"]
    /\ UNCHANGED <<osc, out, fxout, srcpeak, srcpulls, fxpulls,
                   delay, dlast, pushes, lpVars, normVars, agcVars, twinVars,
                   seedVars, pairVars>>

\* Reverb::next on the reverb built
ReverbBuiltNext ==
    /\ feed.stage = "built"
    /\ ReverbNext

NextReverbNew ==
    \/ ReverbConstruct
    \/ ReverbBuiltNext

SpecReverbNew == InitReverbNew /\ [][NextReverbNew]_vars

----------------------------------------------------------------------------
(* Claims about Reverb::new, checked under SpecReverbNew *)

\* the i-th buffer as claimed: delay base_i * room_size, feedback
\* damping * 0.6, mix mix / 8, each clamped by DelayBuffer::new
ClaimedBuffer(i) ==
    LET capacity == DelaySamples(ReverbDelays[i] * feed.room_size.size)
    IN  /\ fx.delay_buffers[i].delay_samples = capacity
        /\ fx.delay_buffers[i].max_delay_samples = Max(capacity, 1)
        /\ fx.delay_buffers[i].feedback =
              Clamp(Mul(feed.damping, (6 * SCALE) \div 10), 0, (95 * SCALE) \div 100)
        /\ fx.delay_buffers[i].mix = Clamp(Round(feed.mix, 8), 0, SCALE)

EightBuffersAsClaimed ==
    /\ ReverbDelays = <<29, 37, 41, 43, 47, 53, 59, 61>>
    /\ fx.kind = "Reverb"
    /\ Len(fx.delay_buffers) = 8
    /\ \A i \in 1..8 : ClaimedBuffer(i)

\* a pull that returned a sample handed that sample to every buffer
SameSampleToAll ==
    (ReverbBuiltNext /\ fxout'.some) =>
        \A i \in 1..8 :
            fx'.delay_buffers[i] = ProcessSample(fx.delay_buffers[i], out'.v).state

----------------------------------------------------------------------------
(* AutomaticGainControl in binary32 (src/effects.rs): the same               *)
(* process_sample as AgcProcess, computed with the program's f32 operations  *)
(* so that the rounding of each step is the program's                        *)

F32One == <<Pow2(23), -23>>

\* the f32 values of the literals 0.0001, 0.1, 10.0 and of SAMPLE_RATE as f32
AgcSilenceF32 == <<13743895, -37>>

MinGainF32 == <<13421773, -27>>

MaxGainF32 == <<10485760, -20>>

SampleRateF32 == <<11289600, -8>>

\* f32::exp of an argument x <= 0.  exp(x) is 1.0 in f32 for |x| < 2^-25 (the
\* value is nearer to 1.0 than to the f32 below it) and 0.0 for |x| >= 128
\* (the value is below half the smallest f32); between the two the values of
\* the arguments -1 / (time * 44100) the presets lead to are tabulated:
\* time 0.001 s, 0.003 s, 0.01 s, 0.05 s, 0.1 s
ExpF32(x) ==
    IF x[1] = 0 \/ x[2] <= -49 THEN F32One
    ELSE IF x[2] >= -16 THEN F32Zero
    ELSE CASE x = <<-12173943, -29>> -> <<16401061, -24>>
           [] x = <<-16231924, -31>> -> <<16650882, -24>>
           [] x = <<-9739155, -32>>  -> <<16739216, -24>>
           [] x = <<-15582648, -35>> -> <<16769609, -24>>
           [] x = <<-15582648, -36>> -> <<16773412, -24>>

\* (-1.0 / (time * self.sample_rate)).exp()
SmoothingCoeffF32(time, sample_rate) ==
    ExpF32(F32Quot(F32Neg(F32One), F32Mul(time, sample_rate)))

\* AutomaticGainControl::new
AgcNewF32(target_level, attack_time, release_time, sample_rate) ==
    [target_level      |-> F32Clamp(target_level, F32Zero, F32One),
     attack_time       |-> attack_time,
     release_time      |-> release_time,
     current_gain      |-> F32One,
     envelope_follower |-> F32Zero,
     sample_rate       |-> sample_rate]

\* the follower stepping away from the input level
EnvelopeFollowerAwayF32(a, input_level) ==
    LET coeff == IF F32Gt(input_level, a.envelope_follower)
                 THEN SmoothingCoeffF32(a.attack_time, a.sample_rate)
                 ELSE SmoothingCoeffF32(a.release_time, a.sample_rate)
    IN  F32Add(a.envelope_follower,
               F32Mul(F32Sub(a.envelope_follower, input_level), coeff))

\* self.envelope_follower =
\*     input_level + (self.envelope_follower - input_level) * coeff
EnvelopeFollowerF32(a, input_level) ==
    LET coeff == IF F32Gt(input_level, a.envelope_follower)
                 THEN SmoothingCoeffF32(a.attack_time, a.sample_rate)
                 ELSE SmoothingCoeffF32(a.release_time, a.sample_rate)
    IN  F32Add(input_level,
               F32Mul(F32Sub(a.envelope_follower, input_level), coeff))

\* required_gain
RequiredGainF32(a, follower) ==
    IF F32Gt(follower, AgcSilenceF32) THEN F32Quot(a.target_level, follower)
    ELSE F32One

\* current_gain after smoothing towards required_gain and the clamp
CurrentGainF32(a, required_gain) ==
    LET gain_diff  == F32Sub(required_gain, a.current_gain)
        gain_coeff == IF F32Gt(gain_diff, F32Zero)
                      THEN SmoothingCoeffF32(a.release_time, a.sample_rate)
                      ELSE SmoothingCoeffF32(a.attack_time, a.sample_rate)
    IN  F32Clamp(F32Add(a.current_gain,
                        F32Mul(gain_diff, F32Sub(F32One, gain_coeff))),
                 MinGainF32, MaxGainF32)

\* AutomaticGainControl::process_sample: the control after the call
AgcProcessF32(a, input) ==
    LET follower == EnvelopeFollowerF32(a, F32Abs(input))
    IN  [a EXCEPT !.envelope_follower = follower,
                  !.current_gain = CurrentGainF32(a, RequiredGainF32(a, follower))]

\* AutomaticGainControl::process_sample: input * self.current_gain
AgcOutputF32(a, input) == F32Mul(input, AgcProcessF32(a, input).current_gain)

MaxAgcF32Calls == 4

\* target_level, attack_time, release_time as f32: AGC::limiter (0.95, 0.001,
\* 0.05), AGC::gentle (0.7, 0.003, 0.1), test_agc (0.5, 0.01, 0.1), and 0.5
\* with an attack of 1e-7 s and a release of 1000 s, whose coefficients are
\* 0.0 and 1.0 in f32
AgcConfigsF32 ==
    {<< <<15938355, -24>>, <<8589935, -33>>, <<13421773, -28>> >>,
     << <<11744051, -24>>, <<12884902, -32>>, <<13421773, -27>> >>,
     << <<8388608, -24>>, <<10737418, -30>>, <<13421773, -27>> >>,
     << <<8388608, -24>>, <<14073749, -47>>, <<16384000, -14>> >>}

\* the f32 values of 0.0, 0.4, 0.11, 1.0, -1.0 and 0.00005
AgcInputsF32 ==
    {F32Zero, <<13421773, -25>>, <<14763950, -27>>, F32One, F32Neg(F32One),
     <<13743895, -38>>}

InitAgcF32 ==
    /\ IdleOsc /\ IdleDelay /\ IdleLp /\ IdleNorm /\ IdleChain /\ IdleTwin /\ IdleSeed /\ IdlePair
    /\ \E c \in AgcConfigsF32 : agc = AgcNewF32(c[1], c[2], c[3], SampleRateF32)
    /\ agclast = <<>>
    /\ agccalls = 0

\* the largest input magnitude of the calls so far
PeakSoFar(level) ==
    IF agclast # <<>> /\ F32Gt(agclast[1].peak, level) THEN agclast[1].peak ELSE level

\* one call of AutomaticGainControl::process_sample
AgcProcessSampleF32 ==
    /\ agccalls < MaxAgcF32Calls
    /\ \E input \in AgcInputsF32 :
          /\ agc' = AgcProcessF32(agc, input)
          /\ agclast' = <<[input    |-> input,
                           output   |-> AgcOutputF32(agc, input),
                           before   |-> agc.envelope_follower,
                           required |-> RequiredGainF32(agc, AgcProcessF32(agc, input).envelope_follower),
                           peak     |-> PeakSoFar(F32Abs(input))]>>
    /\ agccalls' = agccalls + 1
    /\ UNCHANGED othersAgc

NextAgcF32 == AgcProcessSampleF32

SpecAgcF32 == InitAgcF32 /\ [][NextAgcF32]_vars

----------------------------------------------------------------------------
(* Claims about the envelope follower, checked under SpecAgcF32 *)

\* x <= y
F32Leq(x, y) == ~F32Gt(x, y)

\* the follower lies between its previous value and |input| (inclusive), is
\* not negative, and does not exceed the largest |input| seen so far
FollowerWithinBounds ==
    LET level    == F32Abs(agclast[1].input)
        before   == agclast[1].before
        follower == agc.envelope_follower
    IN  /\ \/ F32Leq(before, follower) /\ F32Leq(follower, level)
           \/ F32Leq(level, follower) /\ F32Leq(follower, before)
        /\ F32Leq(F32Zero, follower)
        /\ F32Leq(follower, agclast[1].peak)

\* while the follower is at most 0.0001 the required gain is 1.0; all-zero
\* input keeps current_gain at 1.0 and the output at 0
SilenceKeepsUnitGain ==
    /\ F32Leq(agc.envelope_follower, AgcSilenceF32) => agclast[1].required = F32One
    /\ agclast[1].peak = F32Zero =>
          /\ agc.envelope_follower = F32Zero
          /\ agc.current_gain = F32One
          /\ agclast[1].output = F32Zero

\* both smoothing coefficients are below 1.0
CoefficientsBelowOne ==
    /\ SmoothingCoeffF32(agc.attack_time, agc.sample_rate) # F32One
    /\ SmoothingCoeffF32(agc.release_time, agc.sample_rate) # F32One

\* C30 as claimed: with attack and release times > 0, after each
\* process_sample the envelope follower lies between its previous value and
\* |input| (inclusive), so that starting from 0 it is never negative and never
\* exceeds the largest |input| seen so far; while the follower is at most
\* 0.0001 the required gain is 1.0, so an all-zero input keeps current_gain at
\* 1.0 and every output at 0.
C30_FollowerNeverOvershoots ==
    agclast # <<>> => (FollowerWithinBounds /\ SilenceKeepsUnitGain)

\* C30 as amended: the same for attack and release times whose smoothing
\* coefficient exp(-1 / (time * sample_rate)) is below 1.0 in f32; the part
\* about silence holds for every time > 0.
C30_FollowerWithinBoundsBelowOne ==
    agclast # <<>> =>
        /\ CoefficientsBelowOne => FollowerWithinBounds
        /\ F32Leq(F32Zero, agc.envelope_follower)
        /\ SilenceKeepsUnitGain

\* the limiter after a full-scale and then a near-silent sample: the follower
\* has risen towards 1.0 and is falling towards 0.00005, strictly between its
\* previous value and the input level
C30_Witness ==
    /\ agclast # <<>>
    /\ agccalls = 2
    /\ agc.target_level = <<15938355, -24>>
    /\ CoefficientsBelowOne
    /\ agclast[1].input = <<13743895, -38>>
    /\ agclast[1].peak = F32One
    /\ F32Gt(agclast[1].before, agc.envelope_follower)
    /\ F32Gt(agc.envelope_follower, agclast[1].input)
====
